---------------------------- MODULE Spec2Model ----------------------------
(***************************************************************************)
(* Model of the COSMIC VLA calibration engine (src/calib_util.py and       *)
(* src/calibrate_uvh5.py).                                                 *)
(*                                                                         *)
(* Complex samples are exact Gaussian rationals <<re, im, den>> standing   *)
(* for (re + i*im)/den, kept in lowest terms with den > 0.  The value      *)
(* <<0, 0, 0>> stands for every non-finite IEEE value (inf, nan): it is    *)
(* what a division by zero produces and it absorbs every further           *)
(* operation.  Rounding of the floating-point operations is not modelled.  *)
(***************************************************************************)
EXTENDS Integers, Sequences, FiniteSets, TLC

VARIABLES
    nant_data,         \* metadata['nant_data']
    ant_numbers_data,  \* metadata['ant_numbers_data']: ids of the observed antennas
    ant_names,         \* metadata['ant_names'], the name "eaNN" is held as NN
    ant_numbers,       \* metadata['ant_numbers'], parallel to ant_names
    ant_indices,       \* self.ant_indices: the baseline index table
    vis_data,          \* self.vis_data[bl][t][f][p]
    bad_refant,        \* the module-level list BAD_REFANT
    antdisp,           \* the registry META_antennaDisplacement, or Unavailable
    frame,             \* arguments and locals of the call in progress or just made
    ret                \* what the last call returned or raised

vars == <<nant_data, ant_numbers_data, ant_names, ant_numbers, ant_indices,
          vis_data, bad_refant, antdisp, frame, ret>>

None == "none"

-----------------------------------------------------------------------------
(* Complex arithmetic *)

Abs(n) == IF n < 0 THEN -n ELSE n

RECURSIVE GCD(_, _)
GCD(a, b) == IF b = 0 THEN a ELSE GCD(b, a % b)

NonFinite == <<0, 0, 0>>

\* (re + i*im)/den in lowest terms; a zero denominator is a non-finite value
Cx(re, im, den) ==
    IF den = 0 THEN NonFinite
    ELSE LET s == IF den < 0 THEN -1 ELSE 1
             g == GCD(GCD(Abs(re), Abs(im)), Abs(den))
         IN  <<(s * re) \div g, (s * im) \div g, (s * den) \div g>>

Zero == <<0, 0, 1>>
One == <<1, 0, 1>>

isfinite(z) == z[3] # 0

CAdd(x, y) ==
    IF ~isfinite(x) \/ ~isfinite(y) THEN NonFinite
    ELSE Cx(x[1] * y[3] + y[1] * x[3], x[2] * y[3] + y[2] * x[3], x[3] * y[3])

CMul(x, y) ==
    IF ~isfinite(x) \/ ~isfinite(y) THEN NonFinite
    ELSE Cx(x[1] * y[1] - x[2] * y[2], x[1] * y[2] + x[2] * y[1], x[3] * y[3])

conj(z) == <<z[1], -z[2], z[3]>>

\* x / y; a zero divisor gives a non-finite quotient (numpy warns and goes on)
CDiv(x, y) ==
    IF ~isfinite(x) \/ ~isfinite(y) THEN NonFinite
    ELSE LET n == CMul(x, <<y[1], -y[2], 1>>)
         IN  Cx(n[1] * y[3], n[2] * y[3], n[3] * (y[1] * y[1] + y[2] * y[2]))

\* the exact integer square root; the model's tables hold only values whose
\* modulus is rational
ISqrt(n) == CHOOSE r \in 0..n : r * r = n

\* np.abs of a complex value, as a complex value with no imaginary part
CAbs(z) ==
    IF ~isfinite(z) THEN NonFinite
    ELSE Cx(ISqrt(z[1] * z[1] + z[2] * z[2]), 0, z[3])

\* |z|^2, which needs no square root
AbsSq(z) == CMul(z, conj(z))

\* np.cos(np.angle(z)) and np.sin(np.angle(z)); np.angle(0) is 0
CosAngle(z) == IF z[1] = 0 /\ z[2] = 0 THEN One ELSE CDiv(<<z[1], 0, z[3]>>, CAbs(z))
SinAngle(z) == IF z[1] = 0 /\ z[2] = 0 THEN Zero ELSE CDiv(<<z[2], 0, z[3]>>, CAbs(z))

-----------------------------------------------------------------------------
(* calibrate_uvh5.get_ant_array_indices *)

MaxNant == 5

\* the locals of get_ant_array_indices on entry
IndicesEntry(nant) ==
    [op |-> "get_ant_array_indices", pc |-> IF nant = 0 THEN "concat" ELSE "auto",
     nant |-> nant, i |-> 0, j |-> 0, auto |-> <<>>, cross |-> <<>>]

\* the cross loop's test, i < j
CrossTestBug(i, j) == i <= j
CrossTest(i, j) == i < j

\* one pass through the body of an inner loop (lines 297-299 or 302-304),
\* then the move to the next (i, j)
IndicesStep(fr) ==
    LET body == IF fr.pc = "auto"
                THEN IF fr.i = fr.j
                     THEN [fr EXCEPT !.auto = Append(@, <<fr.i, fr.j>>)] ELSE fr
                ELSE IF CrossTest(fr.i, fr.j)
                     THEN [fr EXCEPT !.cross = Append(@, <<fr.i, fr.j>>)] ELSE fr
    IN  IF fr.j + 1 < fr.nant THEN [body EXCEPT !.j = fr.j + 1]
        ELSE IF fr.i + 1 < fr.nant THEN [body EXCEPT !.i = fr.i + 1, !.j = 0]
        ELSE [body EXCEPT !.i = 0, !.j = 0,
                          !.pc = IF fr.pc = "auto" THEN "cross" ELSE "concat"]

RECURSIVE IndicesRun(_)
IndicesRun(fr) == IF fr.pc = "concat" THEN fr.auto \o fr.cross ELSE IndicesRun(IndicesStep(fr))

\* the whole method: the table for nant antennas
get_ant_array_indices(nant) == IndicesRun(IndicesEntry(nant))


-----------------------------------------------------------------------------
(* Shapes and input tables *)

MaxAnt == 3      \* most antennas in a dataset
NTime == 2       \* integrations in a dataset
NFreq == 2       \* frequency channels in a dataset
NPol == 4        \* polarization products; derive_gains reads positions 0 and 3
MaxData == 1     \* datasets are numbered 0..MaxData
MaxGain == 2     \* gain tensors are numbered 0..MaxGain

Times == 0..(NTime - 1)
Freqs == 0..(NFreq - 1)
Pols == 0..(NPol - 1)

\* visibility samples a file can hold: 1, i, 0, -1+2i, 1/2
VisVals == << <<1, 0, 1>>, <<0, 1, 1>>, <<0, 0, 1>>, <<-1, 2, 1>>, <<1, 0, 2>> >>

\* the same with a non-finite sample among them
VisValsNF == VisVals \o << NonFinite >>

\* gains: 2, i, 0, 3+4i, -1/2; each has a rational modulus
GainVals == << <<2, 0, 1>>, <<0, 1, 1>>, <<0, 0, 1>>, <<3, 4, 1>>, <<-1, 0, 2>> >>

\* A [baseline, time, frequency, polarization] array of nbl baselines filled
\* from a table.  Every operation of the engine treats the (time, frequency,
\* polarization) slices independently, so the arrays are enumerated along a
\* diagonal: over the numbers d each sample takes every value of the table,
\* and neighbouring samples differ.
Fill(tab, d, nbl) ==
    [bl \in 0..(nbl - 1) |-> [t \in Times |-> [f \in Freqs |-> [p \in Pols |->
        tab[((d + bl + 2 * t + 3 * f + 4 * p) % Len(tab)) + 1]]]]]

\* A gain tensor [antenna, time, frequency, polarization] for nant antennas;
\* its time axis has length nt (1 after time averaging)
GainFill(tab, c, nant, nt) ==
    [a \in 0..(nant - 1) |-> [t \in 0..(nt - 1) |-> [f \in Freqs |-> [p \in Pols |->
        tab[((c + 2 * a + t + 3 * f + p) % Len(tab)) + 1]]]]]

\* axis lengths of an array held as a function on 0..(n-1)
Shape0(arr) == Cardinality(DOMAIN arr)

\* numpy broadcasting of a length-1 time axis
BTime(arr1, t) == IF Shape0(arr1) = 1 THEN 0 ELSE t

\* the injected gain model: V[a,b] = g[a] x conj(g[b]) x M[a,b]
Inject(g, M, table) ==
    [bl \in DOMAIN M |-> [t \in Times |-> [f \in Freqs |-> [p \in Pols |->
        IF bl + 1 > Len(table) THEN M[bl][t][f][p]
        ELSE LET a == table[bl + 1][1]
                 b == table[bl + 1][2]
             IN  CMul(CMul(g[a][BTime(g[a], t)][f][p],
                           conj(g[b][BTime(g[b], t)][f][p])), M[bl][t][f][p])]]]]

\* the observed antenna ids of a dataset with n antennas, which pyuvdata's
\* get_ants returns sorted and unique: 1..n, or 2..n+1 (antenna 1 not observed)
ObservedLists(n) == {[i \in 1..n |-> i], [i \in 1..n |-> i + 1]}

-----------------------------------------------------------------------------
(* calib_util.applycal *)

\* lines 290-300: the antenna lists must agree in length and position by position
AntennasMatchBug(ant_gain, ant_list) ==
    IF Len(ant_gain) # Len(ant_list) THEN "RuntimeError"
    ELSE IF {ant_gain[i] : i \in 1..Len(ant_gain)} # {ant_list[i] : i \in 1..Len(ant_list)}
         THEN "RuntimeError" ELSE None

AntennasMatch(ant_gain, ant_list) ==
    IF Len(ant_gain) # Len(ant_list) THEN "RuntimeError"
    ELSE LET default_val == \A i \in 1..Len(ant_gain) : ant_gain[i] = ant_list[i]
         IN  IF ~default_val THEN "RuntimeError" ELSE None

\* lines 303-306: the inverse of one gain
InverseGainBug(g, phaseonly) == CDiv(One, g)
InverseGain(g, phaseonly) == IF phaseonly THEN CDiv(CAbs(g), g) ELSE CDiv(One, g)

\* line 307
ZeroNonFiniteBug(z) == z
ZeroNonFinite(z) == IF isfinite(z) = FALSE THEN Zero ELSE z

\* lines 303-307 over the gain tensor
icaldata(caldata, phaseonly) ==
    [a \in DOMAIN caldata |-> [t \in DOMAIN caldata[a] |-> [f \in Freqs |-> [p \in Pols |->
        ZeroNonFinite(InverseGain(caldata[a][t][f][p], phaseonly))]]]]

\* line 314
calfacBug(ia1, ia2) == CMul(ia1, ia2)
calfac(ia1, ia2) == CMul(ia1, conj(ia2))

\* lines 312-316 for one baseline: data[dslice] *= calfac
ScaleBaseline(row, icd, a1, a2) ==
    [t \in Times |-> [f \in Freqs |-> [p \in Pols |->
        CMul(row[t][f][p],
             calfac(icd[a1][BTime(icd[a1], t)][f][p], icd[a2][BTime(icd[a2], t)][f][p]))]]]

\* lines 310-316: the loop over range(nbl), from baseline ibl on; reading the
\* table past its end raises IndexError with the earlier baselines already scaled
RECURSIVE ApplyLoop(_, _, _, _)
ApplyLoop(data, icd, table, ibl) ==
    IF ibl >= Shape0(data) THEN [data |-> data, raised |-> None]
    ELSE IF ibl + 1 > Len(table) THEN [data |-> data, raised |-> "IndexError"]
    ELSE ApplyLoop([data EXCEPT ![ibl] =
                        ScaleBaseline(data[ibl], icd, table[ibl + 1][1], table[ibl + 1][2])],
                   icd, table, ibl + 1)

\* the whole function; data is the caller's buffer, changed in place
applycal(data, gain_dict, ant_list, table, phaseonly) ==
    IF AntennasMatch(gain_dict.antennas, ant_list) # None
    THEN [data |-> data, raised |-> AntennasMatch(gain_dict.antennas, ant_list)]
    ELSE ApplyLoop(data, icaldata(gain_dict.gain_val, phaseonly), table, 0)

-----------------------------------------------------------------------------
(* calib_util.gaincal_cpu *)

nit == 3         \* the default of gaincal_cpu's nit argument
MaxCand == 3     \* eigenvector candidates are numbered 0..MaxCand

\* sqrt(w) * v of a dominant eigenpair: 3+4i, i, 0, -2
CandVals == << <<3, 4, 1>>, <<0, 1, 1>>, <<0, 0, 1>>, <<-2, 0, 1>> >>

RECURSIVE CSum(_, _)
CSum(f, S) ==
    IF S = {} THEN Zero
    ELSE LET x == CHOOSE y \in S : TRUE IN CAdd(f[x], CSum(f, S \ {x}))

\* lines 142-149: the mean over the time axis that ignores exact zeros; the
\* axis is kept with length 1
AverageTime(data) ==
    [bl \in DOMAIN data |-> [t \in {0} |-> [f \in Freqs |-> [p \in Pols |->
        LET col == [u \in Times |-> data[bl][u][f][p]]
            count == Cardinality({u \in Times : col[u] # Zero})
            norm == IF count = 0 THEN 1 ELSE count
        IN  CDiv(CSum(col, Times), <<norm, 0, 1>>)]]]]

\* the time indices of an array, averaged or not
TimeAxis(data) == IF DOMAIN data = {} THEN {0} ELSE DOMAIN data[0]
TimeAxisOf(avg) == IF avg # <<>> THEN {0} ELSE Times

\* lines 150-151
ZeroMatrix(taxis, nant) ==
    [t \in taxis |-> [f \in Freqs |-> [p \in Pols |->
        [a \in 0..(nant - 1) |-> [b \in 0..(nant - 1) |-> Zero]]]]]

\* line 154: only cross pairs seed the matrix
SeedTestBug(a0, a1) == TRUE
SeedTest(a0, a1) == a0 # a1

\* lines 155-156 for baseline i
SeedBaseline(tdata, data, i, a0, a1) ==
    [t \in DOMAIN tdata |-> [f \in Freqs |-> [p \in Pols |->
        [a \in DOMAIN tdata[t][f][p] |-> [b \in DOMAIN tdata[t][f][p] |->
            IF a = a1 /\ b = a0 THEN conj(data[i][t][f][p])
            ELSE IF a = a0 /\ b = a1 THEN data[i][t][f][p]
            ELSE tdata[t][f][p][a][b]]]]]]

\* lines 152-156: the loop over range(nbl), from baseline i on
RECURSIVE SeedLoop(_, _, _, _)
SeedLoop(tdata, data, table, i) ==
    IF i >= Shape0(data) THEN [tdata |-> tdata, raised |-> None]
    ELSE IF i + 1 > Len(table) THEN [tdata |-> tdata, raised |-> "IndexError"]
    ELSE LET a0 == table[i + 1][1]
             a1 == table[i + 1][2]
         IN  SeedLoop(IF SeedTest(a0, a1) THEN SeedBaseline(tdata, data, i, a0, a1) ELSE tdata,
                      data, table, i + 1)

\* the locals of gaincal_cpu after lines 138-156
GaincalEntry(data, ant_curr, table, ref_ant, avg, caller) ==
    LET adata == IF avg # <<>> THEN AverageTime(data) ELSE data
        seeded == SeedLoop(ZeroMatrix(TimeAxisOf(avg), Len(ant_curr)), adata, table, 0)
    IN  [op |-> "gaincal_cpu", pc |-> IF seeded.raised # None THEN "raise" ELSE "eigh",
         raised |-> seeded.raised, caller |-> caller, entry |-> data, avg |-> avg,
         data |-> adata, ant_curr |-> ant_curr, ref_ant |-> ref_ant, it |-> 0,
         tdata |-> seeded.tdata, seed |-> seeded.tdata, w |-> None, sv |-> None]

\* antenna a has no non-zero entry in its row of the matrix m
RowZero(m, a) == \A b \in DOMAIN m : m[a][b] = Zero

SliceNo(t, f, p) == t + 2 * f + 3 * p

\* line 158-160, numpy.linalg.eigh of one slice.  The dominant eigenpair (w, v)
\* of a Hermitian matrix is in general irrational and v is fixed only up to a
\* phase, so the pair is a choice among candidates, held as sv = sqrt(w) * v
\* (then w = sum of |sv[k]|^2 because v has norm 1).  What the eigen-equation
\* m v = w v decides exactly is kept: an antenna whose row of m is zero has
\* w * v[a] = 0, and the zero matrix has w = 0.
eigh(m, c, sno) ==
    [a \in DOMAIN m |->
        IF RowZero(m, a) THEN Zero ELSE CandVals[((c + a + sno) % Len(CandVals)) + 1]]

\* lines 161-162: entry [a, b] of a slice m after the pass that found sv; only
\* tdata[..., i, i] is assigned, w * |v[i]|^2, which is |sv[i]|^2
NewEntryBug(m, sv, a, b) == IF a <= b THEN AbsSq(sv[a]) ELSE m[a][b]
NewEntry(m, sv, a, b) == IF a = b THEN AbsSq(sv[a]) ELSE m[a][b]

\* lines 158-162 for every slice: the eigenpairs, then the new diagonal
\* w * |v[i]|^2, which is |sv[i]|^2
EighStep(fr, c) ==
    LET sv == [t \in DOMAIN fr.tdata |-> [f \in Freqs |-> [p \in Pols |->
                  eigh(fr.tdata[t][f][p], c, SliceNo(t, f, p))]]]
        w == [t \in DOMAIN fr.tdata |-> [f \in Freqs |-> [p \in Pols |->
                  CSum([a \in DOMAIN sv[t][f][p] |-> AbsSq(sv[t][f][p][a])],
                       DOMAIN sv[t][f][p])]]]
        tdata == [t \in DOMAIN fr.tdata |-> [f \in Freqs |-> [p \in Pols |->
                  [a \in DOMAIN fr.tdata[t][f][p] |-> [b \in DOMAIN fr.tdata[t][f][p] |->
                      NewEntry(fr.tdata[t][f][p], sv[t][f][p], a, b)]]]]]
    IN  [fr EXCEPT !.sv = sv, !.w = w, !.tdata = tdata, !.it = fr.it + 1,
                   !.pc = IF fr.it + 1 < nit THEN "eigh" ELSE "normalize"]

\* first position (from 0) of x in the list s
IndexOf(s, x) == (CHOOSE i \in 1..Len(s) : s[i] = x /\ \A j \in 1..(i - 1) : s[j] # x) - 1

InList(s, x) == \E i \in 1..Len(s) : s[i] = x

\* lines 167-174: the position the phases are referred to
RefIndBug(ant_curr, ref_ant) == 0
RefInd(ant_curr, ref_ant) == IF InList(ant_curr, ref_ant) THEN IndexOf(ant_curr, ref_ant) ELSE 0

\* line 174: the reference antenna reported
RefAnt(ant_curr, ref_ant) == IF InList(ant_curr, ref_ant) THEN ref_ant ELSE ant_curr[1]

\* line 178: (amp > 0.0) as a factor
AmpPositiveBug(z) == One
AmpPositive(z) == IF CAbs(z)[1] > 0 THEN One ELSE Zero

\* line 178, the rotation cos(phi) - 1j*sin(phi)
RotationBug(z) == CAdd(CosAngle(z), CMul(<<0, 1, 1>>, SinAngle(z)))
Rotation(z) == CAdd(CosAngle(z), CMul(<<0, -1, 1>>, SinAngle(z)))

\* lines 176-178 for the reference's candidate gain z
fac(z) == CMul(Rotation(z), AmpPositive(z))

\* lines 165-186: the gain solution returned
GainSolution(fr) ==
    LET ref_ind == RefInd(fr.ant_curr, fr.ref_ant)
    IN  [antennas |-> fr.ant_curr,
         ref_antenna |-> RefAnt(fr.ant_curr, fr.ref_ant),
         gain_val |-> [a \in 0..(Len(fr.ant_curr) - 1) |->
                        [t \in DOMAIN fr.sv |-> [f \in Freqs |-> [p \in Pols |->
                            CMul(fr.sv[t][f][p][a], fac(fr.sv[t][f][p][ref_ind]))]]]]]

-----------------------------------------------------------------------------
(* calib_util.calc_gain_grade and calibrate_uvh5.derive_gains *)

\* "ea" + str(ant).zfill(2): the characters of an antenna name
RECURSIVE Digits(_)
Digits(n) == IF n < 10 THEN <<n>> ELSE Append(Digits(n \div 10), n % 10)

zfill2(ds) == IF Len(ds) < 2 THEN <<0>> \o ds ELSE ds

AntStr(ant) == <<"e", "a">> \o zfill2(Digits(ant))

\* int(ref_ant[2:])
RECURSIVE DigitsValue(_)
DigitsValue(ds) ==
    IF Len(ds) = 0 THEN 0 ELSE 10 * DigitsValue(SubSeq(ds, 1, Len(ds) - 1)) + ds[Len(ds)]

AntInd(name) == DigitsValue(SubSeq(name, 3, Len(name)))

\* np.squeeze(gain_val) keeps the three axes [antenna, frequency, polarization]
\* that lines 246-249 index only when none of them has length 1
SqueezeKeepsAxes(gain_val) == Shape0(gain_val) > 1 /\ NFreq > 1

\* line 26: np.sum(gain_matrix), over every entry whatever the shape
GradeSumBug(flat, idx) == CSum([x \in idx |-> CAbs(flat[x])], idx)
GradeSum(flat, idx) == CSum(flat, idx)

\* line 26: np.sum(np.abs(gain_matrix))
GradeNorm(flat, idx) == CSum([x \in idx |-> CAbs(flat[x])], idx)

\* line 26 under the filter of line 25: what evaluating the ratio raises.  0/0
\* is numpy's "invalid value" RuntimeWarning, which the filter turns into an
\* exception; so is the inf/inf of an infinite entry, while a nan entry gives
\* nan silently: warns says which, for an input with non-finite entries
GradeRaises(flat, idx, warns) ==
    IF GradeNorm(flat, idx) = Zero THEN "RuntimeWarning"
    ELSE IF ~isfinite(GradeNorm(flat, idx)) /\ warns THEN "RuntimeWarning"
    ELSE None

\* line 27: the exceptions the handler takes
CaughtBug(exc) == exc = "ZeroDivisionError"
Caught(exc) == exc \in {"ZeroDivisionError", "RuntimeWarning"}

\* lines 23-29: the call.  The grade |sum| / sum of moduli is held as
\* <<|sum|^2, sum of moduli>> because |sum| is in general irrational; the
\* sentinel -1.0 of line 28 is the pair Sentinel, which no ratio equals
Sentinel == << <<-1, 0, 1>>, One >>

GradeCall(flat, idx, warns) ==
    LET exc == GradeRaises(flat, idx, warns)
    IN  IF exc = None
        THEN [raised |-> None, value |-> <<AbsSq(GradeSum(flat, idx)), GradeNorm(flat, idx)>>]
        ELSE IF Caught(exc) THEN [raised |-> None, value |-> Sentinel]
        ELSE [raised |-> exc, value |-> None]

\* calc_gain_grade, lines 13-29, on the squeezed gain tensor of derive_gains
calc_gain_grade(gain_val) ==
    LET idx == {<<a, t, f, p>> : a \in DOMAIN gain_val, t \in {0}, f \in Freqs, p \in Pols}
        flat == [x \in idx |-> gain_val[x[1]][x[2]][x[3]][x[4]]]
    IN  GradeCall(flat, idx, TRUE).value

\* lines 221-222 and 243-249: the solution whose gains go to the record, of
\* the one solved at line 220 and the one solved again at line 229
RecordedSolutionBug(gainsol_dict, proposed_gainsol_dict, calculate_grade) ==
    IF calculate_grade THEN proposed_gainsol_dict ELSE gainsol_dict
RecordedSolution(gainsol_dict, proposed_gainsol_dict, calculate_grade) == gainsol_dict

\* line 251: the reference antenna written to the record
RecordRefAnt(ref_ant, gainsol_dict) == ref_ant

\* lines 238-254: the record written out
JsonGainDict(ref_ant, gainsol_dict, flagged_freqs, calculate_grade, gain_grade, proposed) ==
    LET gain == gainsol_dict.gain_val
        gain_ant == gainsol_dict.antennas
        base == [gains |-> [k \in {AntStr(gain_ant[i]) : i \in 1..Len(gain_ant)} |->
                             LET i == IndexOf(gain_ant, AntInd(k))
                             IN  [gain_pol0 |-> [f \in Freqs |-> gain[i][0][f][0]],
                                  gain_pol1 |-> [f \in Freqs |-> gain[i][0][f][3]]]],
                 flagged_hz |-> flagged_freqs,
                 ref_ant |-> RecordRefAnt(ref_ant, gainsol_dict)]
    IN  IF calculate_grade
        THEN base @@ [grade |-> gain_grade, proposed_gain_grade |-> proposed]
        ELSE base

-----------------------------------------------------------------------------
(* calibrate_uvh5.get_refant *)

MaxTel == 3      \* antennas of the telescope
MaxReg == 2      \* most entries of the displacement registry

\* the registry read of line 93 failed
Unavailable == [available |-> FALSE, items |-> <<>>]

\* the registry as read: its entries <<name, displacement>> in the hash's order
Available(items) == [available |-> TRUE, items |-> items]

\* displacements the registry holds; -1 marks an antenna with none
DispVals == {-1, 0, 1}

\* line 96: the sort key, with -1.0 ranked as infinity
SortKeyBug(disp) == disp
SortKey(disp) == IF disp # -1 THEN disp ELSE 1000000

\* sorted(..., key=...) is stable: an entry goes after every entry whose key
\* is not greater
RECURSIVE InsertSorted(_, _)
InsertSorted(sorted, item) ==
    IF sorted = <<>> THEN <<item>>
    ELSE IF SortKey(sorted[Len(sorted)][2]) <= SortKey(item[2]) THEN Append(sorted, item)
    ELSE Append(InsertSorted(SubSeq(sorted, 1, Len(sorted) - 1), item), sorted[Len(sorted)])

RECURSIVE SortItems(_)
SortItems(items) ==
    IF items = <<>> THEN <<>>
    ELSE InsertSorted(SortItems(SubSeq(items, 1, Len(items) - 1)), items[Len(items)])

\* lines 88-91
observed_antenna_names(names, numbers, numbers_data) ==
    [i \in 1..Len(numbers_data) |-> names[IndexOf(numbers, numbers_data[i]) + 1]]

\* lines 92-100: the candidates in priority order
sorted_antenna_name_list(registry, names, numbers, numbers_data) ==
    IF ~registry.available THEN observed_antenna_names(names, numbers, numbers_data)
    ELSE LET sorted == SortItems(registry.items) IN [i \in 1..Len(sorted) |-> sorted[i][1]]

\* line 106
ExcludedBug(antname, bad) == FALSE
Excluded(antname, bad) == InList(bad, antname)

\* lines 102-111: the loop, from candidate i on; None when it ends without a return
RECURSIVE RefantLoop(_, _, _, _, _, _)
RefantLoop(cands, i, names, numbers, numbers_data, bad) ==
    IF i > Len(cands) THEN None
    ELSE LET antname == cands[i]
         IN  IF ~InList(names, antname)
             THEN RefantLoop(cands, i + 1, names, numbers, numbers_data, bad)
             ELSE IF Excluded(antname, bad)
             THEN RefantLoop(cands, i + 1, names, numbers, numbers_data, bad)
             ELSE IF InList(numbers_data, numbers[IndexOf(names, antname) + 1])
             THEN antname
             ELSE RefantLoop(cands, i + 1, names, numbers, numbers_data, bad)

\* the whole method; building the message of line 113 reads antdisp, which is
\* unbound when the registry could not be read
get_refant(registry, names, numbers, numbers_data, bad) ==
    LET found == RefantLoop(sorted_antenna_name_list(registry, names, numbers, numbers_data),
                            1, names, numbers, numbers_data, bad)
    IN  IF found # None THEN [raised |-> None, value |-> found]
        ELSE IF ~registry.available THEN [raised |-> "NameError", value |-> None]
        ELSE [raised |-> "RuntimeError", value |-> None]

-----------------------------------------------------------------------------
(* numpy statistics used by the RFI flaggers *)

\* the increasing list of the members of a set of numbers
RECURSIVE SortedSeq(_)
SortedSeq(S) ==
    IF S = {} THEN <<>>
    ELSE LET m == CHOOSE x \in S : \A y \in S : y <= x IN Append(SortedSeq(S \ {m}), m)

\* f itself, with its values computed once and held
Held(f) == f @@ <<>>

\* the order numpy sorts complex values in: by real part, then imaginary part
LexLess(x, y) ==
    \/ x[1] * y[3] < y[1] * x[3]
    \/ (x[1] * y[3] = y[1] * x[3] /\ x[2] * y[3] < y[2] * x[3])

\* the k-th smallest entry (k from 1) of a finite sequence
Kth(seq, k) ==
    CHOOSE x \in {seq[i] : i \in 1..Len(seq)} :
        /\ Cardinality({i \in 1..Len(seq) : LexLess(seq[i], x)}) < k
        /\ Cardinality({i \in 1..Len(seq) : ~LexLess(x, seq[i])}) >= k

\* np.median: the middle entry, or the mean of the two middle entries; nan
\* for no entries or a non-finite entry
Median(seq) ==
    LET n == Len(seq) IN
    IF n = 0 \/ (\E i \in 1..n : ~isfinite(seq[i])) THEN NonFinite
    ELSE IF n % 2 = 1 THEN Kth(seq, (n + 1) \div 2)
    ELSE CDiv(CAdd(Kth(seq, n \div 2), Kth(seq, n \div 2 + 1)), <<2, 0, 1>>)

\* x - y
CSub(x, y) == CAdd(x, CMul(<<-1, 0, 1>>, y))

\* scipy.stats.median_abs_deviation with its defaults
MadAbout(seq, med) == Median(Held([i \in 1..Len(seq) |-> CAbs(CSub(seq[i], med))]))

mad(seq) ==
    MadAbout(seq, Median(seq))

\* a > b for two real values; a comparison with nan is False
RGreater(a, b) == isfinite(a) /\ isfinite(b) /\ b[1] * a[3] < a[1] * b[3]

\* the axes of a visibility array [baseline, time, channel, pol]
NBls(vis) == Cardinality(DOMAIN vis)
NTimes(vis) == Cardinality(DOMAIN vis[0])
NChans(vis) == Cardinality(DOMAIN vis[0][0])
NPols(vis) == Cardinality(DOMAIN vis[0][0][0])

\* np.mean(vis, axis = 1)
vis_avg(vis) ==
    Held([i \in DOMAIN vis |-> Held([c \in DOMAIN vis[0][0] |-> Held([pol \in DOMAIN vis[0][0][0] |->
        CDiv(CSum([t \in DOMAIN vis[0] |-> vis[i][t][c][pol]], DOMAIN vis[0]),
             <<NTimes(vis), 0, 1>>)])])])

\* spec[:, pol] as a sequence over the channels
Column(spec, pol) == Held([k \in 1..Cardinality(DOMAIN spec) |-> spec[k - 1][pol]])

\* np.argwhere(abs(x - med) > threshold * abs(sig_md)) as a set of channels
DeviatesBug(dev, lim) == ~RGreater(lim, dev)
Deviates(dev, lim) == RGreater(dev, lim)

BadChannels(col, med, sig_md, threshold) ==
    {c \in 0..(Len(col) - 1) :
        Deviates(CAbs(CSub(col[c + 1], med)), CMul(threshold, CAbs(sig_md)))}

\* bad.tolist() for the one-dimensional bad of flag_rfi_complex_pol: the
\* channels in increasing order
ChannelList(bad) == SortedSeq(bad)

-----------------------------------------------------------------------------
(* calib_util.flag_complex_vis_medf *)

\* line 43: vis = visibilities.copy(); what the caller's array holds after
\* the call that wrote vis
CallerArrayAfterBug(visibilities, vis) == vis
CallerArrayAfter(visibilities, vis) == visibilities

\* lines 60-62 for the spectrum col of one baseline and polarization
MedfBad(col, med, sig_md, threshold) ==
    [med |-> med, sig_md |-> sig_md, bad |-> BadChannels(col, med, sig_md, threshold)]

MedfStats(col, threshold) == MedfBad(col, Median(col), mad(col), threshold)

\* line 66: vis[i,:,bad,pol] = med, the scalar written to every time sample
MedfWriteBug(old, t, med) == IF t = 0 THEN med ELSE old
MedfWrite(old, t, med) == med

\* lines 67-68 (and 117-118): the channels that go to the list of a baseline,
\* bads[pol] being the channels flagged in polarization pol
RecordedBug(bads) == UNION {bads[pol] : pol \in DOMAIN bads}
Recorded(bads) == bads[0]

\* line 68: bad is the (k,1) array of argwhere, so bad.tolist() is a list of
\* one-element lists
MedfList(bad) == Held([k \in 1..Cardinality(bad) |-> <<SortedSeq(bad)[k]>>])

\* lines 55-69, given the statistics of every baseline and polarization
MedfLoops(visibilities, stats) ==
    [raised |-> None,
     vis |-> Held([i \in DOMAIN visibilities |-> Held([t \in DOMAIN visibilities[0] |->
               Held([c \in DOMAIN visibilities[0][0] |-> Held([pol \in DOMAIN visibilities[0][0][0] |->
                  IF c \in stats[i][pol].bad
                  THEN MedfWrite(visibilities[i][t][c][pol], t, stats[i][pol].med)
                  ELSE visibilities[i][t][c][pol]])])])]),
     flagged_vis_indx |-> Held([i \in DOMAIN visibilities |->
                            MedfList(Recorded([pol \in DOMAIN stats[i] |-> stats[i][pol].bad]))]),
     stats |-> stats]

MedfAll(visibilities, avg, threshold) ==
    MedfLoops(visibilities,
              Held([i \in DOMAIN visibilities |-> Held([pol \in DOMAIN visibilities[0][0][0] |->
                  MedfStats(Column(avg[i], pol), threshold)])]))

\* lines 43-69
flag_complex_vis_medf(visibilities, threshold) ==
    MedfAll(visibilities, vis_avg(visibilities), threshold)

-----------------------------------------------------------------------------
(* sliding_rfi_flagger.flag_rfi_complex_pol and calib_util.flag_complex_vis_smw *)

\* lines 69-70 of the flagger: int(max([0, i - winSize/2])) and
\* int(min([i + winSize/2 + 1, n])), the division being a float division and
\* int truncating
WindowLowBug(i, winSize) == (2 * i - winSize) \div 2
WindowLow(i, winSize) == IF 2 * i - winSize < 0 THEN 0 ELSE (2 * i - winSize) \div 2
WindowHigh(i, winSize, n) ==
    IF 2 * i + winSize + 2 >= 2 * n THEN n ELSE (2 * i + winSize + 2) \div 2

\* line 71: the smoothed bandpass, smth[i, pol] = median of data[mn:mx, pol]
Window(data, pol, mn, mx) == Held([k \in 1..(mx - mn) |-> data[mn + k - 1][pol]])

Smooth(data, winSize) ==
    Held([i \in DOMAIN data |-> Held([pol \in DOMAIN data[0] |->
        Median(Window(data, pol, WindowLow(i, winSize),
                      WindowHigh(i, winSize, Cardinality(DOMAIN data))))])])

\* lines 74-82 of the flagger, for the column col of diff
PolBad(col, clip) == BadChannels(col, Median(col), mad(col), clip)

PolDiff(data, smth) ==
    Held([i \in DOMAIN data |-> Held([pol \in DOMAIN data[0] |-> CSub(data[i][pol], smth[i][pol])])])

PolBadChans(data, diff, smth, clip) ==
    [bad_chans |-> Held([pol \in DOMAIN data[0] |-> PolBad(Column(diff, pol), clip)]),
     smth |-> smth]

PolSmoothed(data, smth, clip) == PolBadChans(data, PolDiff(data, smth), smth, clip)

\* lines 65-85 of the flagger
flag_rfi_complex_pol(data, winSize, clip) == PolSmoothed(data, Smooth(data, winSize), clip)

\* calib_util.py lines 95-99: win = int(nfreqs/4); the two branches compare
\* win with 10 and 20 and assign nothing
ClampBug(win) == IF win < 10 THEN 10 ELSE IF win > 20 THEN 20 ELSE win
Clamp(win) == IF win < 10 THEN win ELSE IF win > 20 THEN win ELSE win

WindowSize(nfreqs) == Clamp(nfreqs \div 4)

\* line 116: vis[i,:,bad,pol] = smth_bp[bad, pol].  The indexed part of vis
\* has shape (k, ntime), the advanced indices being split by the slice, and
\* the value has shape (k,): numpy broadcasts it only if k is 1 or ntime
BroadcastFits(k, ntime) == k = 1 \/ k = ntime

\* the value the assignment puts at time t of the flagged channel c: the
\* value's axis runs along time
SmwWriteBug(smth, blist, t, c, pol) == smth[c][pol]
SmwWrite(smth, blist, t, c, pol) ==
    IF Len(blist) = 1 THEN smth[blist[1]][pol] ELSE smth[blist[t + 1]][pol]

\* lines 113-119, given what flag_rfi_complex_pol returned for every baseline
SmwFits(visibilities, res) ==
    \A i \in DOMAIN visibilities : \A pol \in DOMAIN visibilities[0][0][0] :
        Cardinality(res[i].bad_chans[pol]) # 0
            => BroadcastFits(Cardinality(res[i].bad_chans[pol]), NTimes(visibilities))

SmwLocals(visibilities, res, win) ==
    [win |-> win,
     smth_bp |-> Held([i \in DOMAIN visibilities |-> res[i].smth]),
     bad_chans |-> Held([i \in DOMAIN visibilities |-> res[i].bad_chans])]

SmwLoops(visibilities, res, locals) ==
    IF SmwFits(visibilities, res)
    THEN [raised |-> None,
          vis |-> Held([i \in DOMAIN visibilities |-> Held([t \in DOMAIN visibilities[0] |->
                    Held([c \in DOMAIN visibilities[0][0] |-> Held([pol \in DOMAIN visibilities[0][0][0] |->
                       IF c \in res[i].bad_chans[pol]
                       THEN SmwWrite(res[i].smth, ChannelList(res[i].bad_chans[pol]), t, c, pol)
                       ELSE visibilities[i][t][c][pol]])])])]),
          flagged_vis_indx |-> Held([i \in DOMAIN visibilities |->
                                 ChannelList(Recorded(res[i].bad_chans))]),
          locals |-> locals]
    ELSE [raised |-> "ValueError", vis |-> None, flagged_vis_indx |-> None, locals |-> locals]

SmwResults(visibilities, res, win) ==
    SmwLoops(visibilities, res, SmwLocals(visibilities, res, win))

SmwAll(visibilities, avg, win, threshold) ==
    SmwResults(visibilities,
               Held([i \in DOMAIN visibilities |-> flag_rfi_complex_pol(avg[i], win, threshold)]),
               win)

\* lines 86-119
flag_complex_vis_smw(visibilities, threshold) ==
    SmwAll(visibilities, vis_avg(visibilities), WindowSize(NChans(visibilities)), threshold)

-----------------------------------------------------------------------------
(* calibrate_uvh5.derive_flagged_frequencies and flag_rfi_vis *)

\* metadata['freq_array']: the frequency in Hz of channel c
freq_array(c) == 1000 + 10 * c

\* np.array(flagged_visibility_idx[bl]).flatten(): the channels of the list of
\* one-element lists that flag_complex_vis_medf, the caller's source, makes
Flatten(lst) == Held([k \in 1..Len(lst) |-> lst[k][1]])

\* lines 198-203 for one baseline: the dict found, as a set of
\* <<name, frequencies>> with one entry a name, after the baseline
PutFlagged(found, name, hz) == {e \in found : e[1] # name} \cup {<<name, hz>>}

FlaggedHz(idx) == Held([k \in 1..Len(idx) |-> freq_array(idx[k])])

FlaggedStep(found, flagged, ant0, ant1, ref_ant, names) ==
    IF ant0 # ant1 /\ Len(flagged) # 0
    THEN IF names[ant1 + 1] = ref_ant
         THEN PutFlagged(found, names[ant0 + 1], FlaggedHz(Flatten(flagged)))
         ELSE IF names[ant0 + 1] = ref_ant
         THEN PutFlagged(found, names[ant1 + 1], FlaggedHz(Flatten(flagged)))
         ELSE found
    ELSE found

\* lines 196-204 from baseline bl on
RECURSIVE FlaggedFrom(_, _, _, _, _, _)
FlaggedFrom(bl, found, flagged_visibility_idx, ref_ant, table, names) ==
    IF bl >= Cardinality(DOMAIN flagged_visibility_idx) THEN found
    ELSE FlaggedFrom(bl + 1,
                     FlaggedStep(found, flagged_visibility_idx[bl], table[bl + 1][1],
                                 table[bl + 1][2], ref_ant, names),
                     flagged_visibility_idx, ref_ant, table, names)

derive_flagged_frequencies(flagged_visibility_idx, ref_ant, table, names) ==
    FlaggedFrom(0, {}, flagged_visibility_idx, ref_ant, table, names)

-----------------------------------------------------------------------------
(* Specification of get_ant_array_indices, one loop pass per step *)

InitIndices ==
    /\ nant_data \in 1..MaxNant
    /\ ant_numbers_data = None /\ ant_names = None /\ ant_numbers = None
    /\ ant_indices = None /\ vis_data = None /\ bad_refant = None /\ antdisp = None
    /\ frame = IndicesEntry(nant_data)
    /\ ret = None

\* lines 296-304
IndicesLoop ==
    /\ frame.op = "get_ant_array_indices" /\ frame.pc \in {"auto", "cross"}
    /\ frame' = IndicesStep(frame)
    /\ UNCHANGED <<nant_data, ant_numbers_data, ant_names, ant_numbers, ant_indices,
                   vis_data, bad_refant, antdisp, ret>>

\* lines 306-308, and the constructor's assignment of line 53
IndicesReturn ==
    /\ frame.op = "get_ant_array_indices" /\ frame.pc = "concat"
    /\ frame' = [frame EXCEPT !.pc = "done"]
    /\ ret' = frame.auto \o frame.cross
    /\ ant_indices' = frame.auto \o frame.cross
    /\ UNCHANGED <<nant_data, ant_numbers_data, ant_names, ant_numbers,
                   vis_data, bad_refant, antdisp>>

NextIndices == IndicesLoop \/ IndicesReturn

SpecIndices == InitIndices /\ [][NextIndices]_vars

-----------------------------------------------------------------------------
(* Specification of applycal on the object's visibility buffer *)

\* the datasets: plain tables (a non-finite sample among them) and datasets
\* synthesized from a gain tensor by the injected gain model
Datasets(nbl, nant, table) ==
    {Fill(VisValsNF, d, nbl) : d \in 0..MaxData}
    \cup {Inject(GainFill(GainVals, c, nant, 1), Fill(VisVals, d, nbl), table) :
            c \in 0..MaxGain, d \in 0..MaxData}

\* baseline-axis lengths a file can have beside a table of n entries
BaselineCounts(n) == {k \in {n - 1, n, n + 1} : k >= 0}

Reverse(s) == [i \in 1..Len(s) |-> s[Len(s) + 1 - i]]

\* antenna lists of a gain solution, as near a dataset's list as they can be
\* without being it, and the list itself
GainAntennaLists(ant_list) ==
    {ant_list, Reverse(ant_list), Tail(ant_list), Append(ant_list, ant_list[Len(ant_list)] + 1),
     [ant_list EXCEPT ![Len(ant_list)] = @ + 1], [ant_list EXCEPT ![1] = 0]}

InitApplycal ==
    /\ nant_data \in 1..MaxAnt
    /\ ant_numbers_data \in ObservedLists(nant_data)
    /\ ant_names = None /\ ant_numbers = None /\ bad_refant = None /\ antdisp = None
    /\ ant_indices = get_ant_array_indices(nant_data)
    /\ \E nbl \in BaselineCounts(Len(ant_indices)) :
          vis_data \in Datasets(nbl, nant_data, ant_indices)
    /\ frame = [op |-> None]
    /\ ret = None

\* applycal(self.vis_data, gain_dict, ant_numbers_data, self.ant_indices, axis=0, phaseonly)
Applycal ==
    /\ frame.op = None
    /\ \E av \in GainAntennaLists(ant_numbers_data), c \in 0..MaxGain,
          nt \in {1, NTime}, phaseonly \in BOOLEAN :
          LET gain_dict == [antennas |-> av, ref_antenna |-> ant_numbers_data[1],
                            gain_val |-> GainFill(GainVals, c, Len(av), nt)]
              r == applycal(vis_data, gain_dict, ant_numbers_data, ant_indices, phaseonly)
          IN  /\ vis_data' = r.data
              /\ ret' = [raised |-> r.raised]
              /\ frame' = [op |-> "applycal", data |-> vis_data, gain_dict |-> gain_dict,
                           ant_list |-> ant_numbers_data, phaseonly |-> phaseonly]
    /\ UNCHANGED <<nant_data, ant_numbers_data, ant_names, ant_numbers, ant_indices,
                   bad_refant, antdisp>>

NextApplycal == Applycal

SpecApplycal == InitApplycal /\ [][NextApplycal]_vars

-----------------------------------------------------------------------------
(* Claims about applycal, checked under SpecApplycal *)

Called(op) == frame.op = op

\* the antenna lists of the call just made
ListsDiffer ==
    \/ Len(frame.gain_dict.antennas) # Len(frame.ant_list)
    \/ \E i \in 1..Len(frame.ant_list) : frame.gain_dict.antennas[i] # frame.ant_list[i]

\* the baselines of the buffer that have an entry in the table
TableBaselines == {bl \in DOMAIN vis_data : bl + 1 <= Len(ant_indices)}

\* the gain of the call at antenna position a in slice (t, f, p)
GainAt(a, t, f, p) ==
    LET g == frame.gain_dict.gain_val[a] IN g[BTime(g, t)][f][p]

\* C1: applycal raises whenever the gain solution's antenna list and the
\* dataset's differ in length or at any position (a different order of the
\* same ids included), and the visibility buffer is then left as it was.
C1_MismatchRaisesAndKeepsData ==
    (Called("applycal") /\ ListsDiffer)
        => (ret.raised = "RuntimeError" /\ vis_data = frame.data)

\* a call with the dataset's ids in another order has been refused
C1_Witness ==
    /\ Called("applycal")
    /\ Len(frame.ant_list) >= 2
    /\ frame.gain_dict.antennas = Reverse(frame.ant_list)
    /\ ret.raised = "RuntimeError"
    /\ vis_data = frame.data

\* the inverse gain as the specification words it
SpecInverseGain(g, phaseonly) ==
    LET raw == IF phaseonly THEN CDiv(CAbs(g), g) ELSE CDiv(One, g)
    IN  IF isfinite(raw) THEN raw ELSE Zero

\* C2: with matching lists every sample of every baseline ibl, whose table
\* entry is (a1, a2), is the sample on entry times inverse_gain[a1] x
\* conj(inverse_gain[a2]), once, where inverse_gain is 1/g or, phase-only,
\* |g|/g; a baseline with no table entry is left as it was.
C2_EachBaselineScaledByOwnPair ==
    (Called("applycal") /\ ~ListsDiffer) =>
        \A bl \in DOMAIN vis_data : \A t \in Times, f \in Freqs, p \in Pols :
            IF bl \in TableBaselines
            THEN LET a1 == ant_indices[bl + 1][1]
                     a2 == ant_indices[bl + 1][2]
                 IN  vis_data[bl][t][f][p] =
                        CMul(frame.data[bl][t][f][p],
                             CMul(SpecInverseGain(GainAt(a1, t, f, p), frame.phaseonly),
                                  conj(SpecInverseGain(GainAt(a2, t, f, p), frame.phaseonly))))
            ELSE vis_data[bl][t][f][p] = frame.data[bl][t][f][p]

\* a phase-only call has changed a sample of a cross baseline of three antennas
C2_Witness ==
    /\ Called("applycal") /\ ~ListsDiffer /\ frame.phaseonly
    /\ Len(frame.ant_list) = 3
    /\ ret.raised = None
    /\ \E bl \in TableBaselines : \E t \in Times, f \in Freqs, p \in Pols :
          /\ ant_indices[bl + 1][1] # ant_indices[bl + 1][2]
          /\ isfinite(vis_data[bl][t][f][p])
          /\ vis_data[bl][t][f][p] # frame.data[bl][t][f][p]
          /\ vis_data[bl][t][f][p] # Zero

ModelVis(nbl) == {Fill(VisVals, d, nbl) : d \in 0..MaxData}

\* C4: for visibilities synthesized as V[a,b] = g[a] x conj(g[b]) x M[a,b]
\* with g non-zero, applycal with the full inverse of the same gains returns
\* M on every baseline of the table, autocorrelations included.
C4_ApplyInvertsInjectedGains ==
    (Called("applycal") /\ ~ListsDiffer /\ ~frame.phaseonly) =>
        \A M \in ModelVis(Shape0(vis_data)) :
            \A bl \in TableBaselines : \A t \in Times, f \in Freqs, p \in Pols :
                LET ga == GainAt(ant_indices[bl + 1][1], t, f, p)
                    gb == GainAt(ant_indices[bl + 1][2], t, f, p)
                IN  (/\ ga # Zero /\ gb # Zero
                     /\ frame.data[bl][t][f][p] = CMul(CMul(ga, conj(gb)), M[bl][t][f][p]))
                        => vis_data[bl][t][f][p] = M[bl][t][f][p]

\* a dataset synthesized from the gains of the call was corrected back to its
\* model on a cross baseline and on an autocorrelation
C4_Witness ==
    /\ Called("applycal") /\ ~ListsDiffer /\ ~frame.phaseonly
    /\ Shape0(vis_data) = Len(ant_indices) /\ Len(frame.ant_list) = 3
    /\ \E M \in ModelVis(Shape0(vis_data)) :
          /\ frame.data = Inject(frame.gain_dict.gain_val, M, ant_indices)
          /\ \E bl \in TableBaselines : \E t \in Times, f \in Freqs, p \in Pols :
                /\ ant_indices[bl + 1][1] # ant_indices[bl + 1][2]
                /\ GainAt(ant_indices[bl + 1][1], t, f, p) \notin {Zero, One}
                /\ GainAt(ant_indices[bl + 1][2], t, f, p) \notin {Zero, One}
                /\ M[bl][t][f][p] # Zero
                /\ frame.data[bl][t][f][p] # M[bl][t][f][p]
                /\ vis_data[bl][t][f][p] = M[bl][t][f][p]
          /\ \E bl \in TableBaselines : \E t \in Times, f \in Freqs, p \in Pols :
                /\ ant_indices[bl + 1][1] = ant_indices[bl + 1][2]
                /\ GainAt(ant_indices[bl + 1][1], t, f, p) \notin {Zero, One}
                /\ M[bl][t][f][p] # Zero
                /\ frame.data[bl][t][f][p] # M[bl][t][f][p]
                /\ vis_data[bl][t][f][p] = M[bl][t][f][p]

-----------------------------------------------------------------------------
(* Specifications of gaincal_cpu and of derive_gains *)

\* the baselines of antennas in dead carry no signal
Kill(data, table, dead) ==
    [bl \in DOMAIN data |->
        IF bl + 1 <= Len(table) /\ (table[bl + 1][1] \in dead \/ table[bl + 1][2] \in dead)
        THEN [t \in Times |-> [f \in Freqs |-> [p \in Pols |-> Zero]]]
        ELSE data[bl]]

DeadSets(nant) == {{}, {0}}

SolverDatasets(nbl, nant, table) ==
    {Kill(Fill(VisVals, d, nbl), table, dead) : d \in 0..MaxData, dead \in DeadSets(nant)}

\* a dataset as the constructor leaves it
InitSolver ==
    /\ nant_data \in 1..MaxAnt
    /\ ant_numbers_data \in ObservedLists(nant_data)
    /\ ant_names = None /\ ant_numbers = None /\ bad_refant = None /\ antdisp = None
    /\ ant_indices = get_ant_array_indices(nant_data)
    /\ \E nbl \in BaselineCounts(Len(ant_indices)) :
          vis_data \in SolverDatasets(nbl, nant_data, ant_indices)
    /\ frame = [op |-> None]
    /\ ret = None

\* gaincal_cpu(self.vis_data, ant_numbers_data, self.ant_indices, axis=0, ref_ant, avg),
\* lines 138-156
GaincalEnter ==
    /\ frame.op = None
    /\ \E ref_ant \in 1..(nant_data + 2), avg \in {<<>>, <<1>>} :
          frame' = GaincalEntry(vis_data, ant_numbers_data, ant_indices, ref_ant, avg,
                                [op |-> None])
    /\ UNCHANGED <<nant_data, ant_numbers_data, ant_names, ant_numbers, ant_indices,
                   vis_data, bad_refant, antdisp, ret>>

\* one pass of the loop of lines 157-162
GaincalEigh ==
    /\ frame.op = "gaincal_cpu" /\ frame.pc = "eigh"
    /\ \E c \in 0..MaxCand : frame' = EighStep(frame, c)
    /\ UNCHANGED <<nant_data, ant_numbers_data, ant_names, ant_numbers, ant_indices,
                   vis_data, bad_refant, antdisp, ret>>

\* lines 165-186
GaincalReturn ==
    /\ frame.op = "gaincal_cpu" /\ frame.pc = "normalize"
    /\ ret' = [raised |-> None, value |-> GainSolution(frame)]
    /\ frame' = [frame EXCEPT !.pc = "returned"]
    /\ UNCHANGED <<nant_data, ant_numbers_data, ant_names, ant_numbers, ant_indices,
                   vis_data, bad_refant, antdisp>>

\* line 153 read the table past its end; the error leaves every caller
GaincalRaise ==
    /\ frame.op = "gaincal_cpu" /\ frame.pc = "raise"
    /\ ret' = [raised |-> frame.raised, value |-> None]
    /\ frame' = [frame EXCEPT !.pc = "raised"]
    /\ UNCHANGED <<nant_data, ant_numbers_data, ant_names, ant_numbers, ant_indices,
                   vis_data, bad_refant, antdisp>>

NextGaincal == GaincalEnter \/ GaincalEigh \/ GaincalReturn \/ GaincalRaise

SpecGaincal == InitSolver /\ [][NextGaincal]_vars

\* derive_gains(outdir, ref_ant, flagged_freqs=None, calculate_grade), lines 216-220
DeriveGainsEnter ==
    /\ frame.op = None
    /\ \E n \in 1..(nant_data + 2), calculate_grade \in BOOLEAN :
          LET ref_ant == AntStr(n)
              caller == [op |-> "derive_gains", pc |-> "solve", ref_ant |-> ref_ant,
                         calculate_grade |-> calculate_grade, entry |-> vis_data,
                         gainsol_dict |-> None, gain_grade |-> None,
                         proposed_gainsol_dict |-> None,
                         solved_from |-> None, proposed_from |-> None]
          IN  frame' = GaincalEntry(vis_data, ant_numbers_data, ant_indices,
                                    AntInd(ref_ant), <<1>>, caller)
    /\ UNCHANGED <<nant_data, ant_numbers_data, ant_names, ant_numbers, ant_indices,
                   vis_data, bad_refant, antdisp, ret>>

\* lines 221-229: grade the solution, apply it phase-only to the object's
\* buffer and solve again
DeriveGainsGrade ==
    /\ frame.op = "gaincal_cpu" /\ frame.pc = "returned"
    /\ frame.caller.op = "derive_gains"
    /\ frame.caller.pc = "solve" /\ frame.caller.calculate_grade
    /\ LET gainsol_dict == ret.value
           applied == applycal(vis_data, gainsol_dict, ant_numbers_data, ant_indices, TRUE)
           caller == [frame.caller EXCEPT !.pc = "resolve", !.gainsol_dict = gainsol_dict,
                                          !.solved_from = frame.entry,
                                          !.gain_grade = calc_gain_grade(gainsol_dict.gain_val)]
       IN  /\ vis_data' = applied.data
           /\ frame' = GaincalEntry(applied.data, ant_numbers_data, ant_indices,
                                    AntInd(caller.ref_ant), <<1>>, caller)
    /\ UNCHANGED <<nant_data, ant_numbers_data, ant_names, ant_numbers, ant_indices,
                   bad_refant, antdisp, ret>>

\* lines 230-274: the record is built from the first solution and returned
DeriveGainsWrite ==
    /\ frame.op = "gaincal_cpu" /\ frame.pc = "returned"
    /\ frame.caller.op = "derive_gains"
    /\ frame.caller.pc = "resolve" \/ ~frame.caller.calculate_grade
    /\ LET cg == frame.caller.calculate_grade
           gainsol_dict == IF cg THEN frame.caller.gainsol_dict ELSE ret.value
           proposed == IF cg THEN calc_gain_grade(ret.value.gain_val) ELSE None
           written == RecordedSolution(gainsol_dict, ret.value, cg)
       IN  /\ ret' = IF SqueezeKeepsAxes(written.gain_val)
                     THEN [raised |-> None,
                           value |-> JsonGainDict(frame.caller.ref_ant, written, None, cg,
                                                  frame.caller.gain_grade, proposed)]
                     ELSE [raised |-> "IndexError", value |-> None]
           /\ frame' = [frame.caller EXCEPT
                           !.pc = "done", !.gainsol_dict = gainsol_dict,
                           !.solved_from = IF cg THEN frame.caller.solved_from ELSE frame.entry,
                           !.proposed_gainsol_dict = IF cg THEN ret.value ELSE None,
                           !.proposed_from = IF cg THEN frame.entry ELSE None]
    /\ UNCHANGED <<nant_data, ant_numbers_data, ant_names, ant_numbers, ant_indices,
                   vis_data, bad_refant, antdisp>>

NextDerive ==
    DeriveGainsEnter \/ GaincalEigh \/ GaincalReturn \/ GaincalRaise
        \/ DeriveGainsGrade \/ DeriveGainsWrite

SpecDerive == InitSolver /\ [][NextDerive]_vars

-----------------------------------------------------------------------------
(* Claims about gaincal_cpu, checked under SpecGaincal *)

Returned(op) == frame.op = op /\ frame.pc = "returned"

IsRealNonNegative(z) == isfinite(z) /\ z[2] = 0 /\ z[1] >= 0

\* the slices of the solution just returned
SolvedSlices == {<<t, f, p>> : t \in DOMAIN frame.sv, f \in Freqs, p \in Pols}

\* the returned gain, and the candidate gain before normalization, of the
\* antenna at position a in slice x
GainOf(a, x) == ret.value.gain_val[a][x[1]][x[2]][x[3]]
CandidateOf(a, x) == frame.sv[x[1]][x[2]][x[3]][a]

Positions == 0..(Len(frame.ant_curr) - 1)

\* the positions of the antenna reported as ref_antenna
ReportedPositions == {a \in Positions : frame.ant_curr[a + 1] = ret.value.ref_antenna}

\* C5: in the gain solution returned by gaincal_cpu the gain of the antenna
\* reported as ref_antenna is real and non-negative (phase zero) in every
\* time/frequency/polarization slice.
C5_ReferencePhaseZero ==
    Returned("gaincal_cpu") =>
        /\ ReportedPositions # {}
        /\ \A a \in ReportedPositions : \A x \in SolvedSlices : IsRealNonNegative(GainOf(a, x))

\* a reference whose candidate gain had a phase came out real and positive
C5_Witness ==
    /\ Returned("gaincal_cpu")
    /\ \E a \in ReportedPositions : \E x \in SolvedSlices :
          /\ CandidateOf(a, x)[2] # 0
          /\ GainOf(a, x)[2] = 0 /\ GainOf(a, x)[1] > 0
    /\ \E a \in ReportedPositions : \E x \in SolvedSlices :
          /\ CandidateOf(a, x)[2] = 0 /\ CandidateOf(a, x)[1] < 0
          /\ GainOf(a, x)[2] = 0 /\ GainOf(a, x)[1] > 0

\* the position the code normalizes to
UsedPosition == RefInd(frame.ant_curr, frame.ref_ant)

\* C6: in a slice where the reference's candidate gain has amplitude 0 every
\* antenna's gain is exactly zero; in a slice where it is positive the gains
\* are only rotated: each amplitude, and each phase relative to the reference,
\* is that of the candidate.
C6_ZeroReferenceZeroesSlice ==
    Returned("gaincal_cpu") =>
        \A x \in SolvedSlices :
            IF CandidateOf(UsedPosition, x) = Zero
            THEN \A a \in Positions : GainOf(a, x) = Zero
            ELSE \A a \in Positions :
                    /\ AbsSq(GainOf(a, x)) = AbsSq(CandidateOf(a, x))
                    /\ CMul(GainOf(a, x), conj(GainOf(UsedPosition, x)))
                         = CMul(CandidateOf(a, x), conj(CandidateOf(UsedPosition, x)))

\* one solution has a slice zeroed although another antenna's candidate gain
\* was not zero, and a slice that was rotated
C6_Witness ==
    /\ Returned("gaincal_cpu")
    /\ \E x \in SolvedSlices : \E a \in Positions :
          /\ CandidateOf(UsedPosition, x) = Zero
          /\ CandidateOf(a, x) # Zero
          /\ GainOf(a, x) = Zero
    /\ \E x \in SolvedSlices : \E a \in Positions :
          /\ CandidateOf(UsedPosition, x) # Zero
          /\ GainOf(a, x) # CandidateOf(a, x)
          /\ GainOf(a, x) # Zero

\* the gains are the candidates referred to the antenna at position k
NormalizedTo(k) ==
    \A x \in SolvedSlices :
        /\ IsRealNonNegative(GainOf(k, x))
        /\ AbsSq(GainOf(k, x)) = AbsSq(CandidateOf(k, x))
        /\ \A a \in Positions :
              CMul(GainOf(a, x), GainOf(k, x)) = CMul(CandidateOf(a, x), conj(CandidateOf(k, x)))

\* C7: when the requested reference id is not in the antenna-id list
\* gaincal_cpu returns a solution normalized to the first antenna of the list
\* and reports that antenna's id; when it is in the list the solution is
\* normalized to its position and the requested id is reported.
C7_AbsentReferenceFallsBackToFirst ==
    Returned("gaincal_cpu") =>
        /\ ret.raised = None
        /\ IF InList(frame.ant_curr, frame.ref_ant)
           THEN /\ ret.value.ref_antenna = frame.ref_ant
                /\ \A k \in Positions : frame.ant_curr[k + 1] = frame.ref_ant => NormalizedTo(k)
           ELSE /\ ret.value.ref_antenna = frame.ant_curr[1]
                /\ NormalizedTo(0)

\* a solve with an absent reference fell back to the first antenna, whose
\* candidate gain had a phase
C7_Witness ==
    /\ Returned("gaincal_cpu")
    /\ ~InList(frame.ant_curr, frame.ref_ant)
    /\ Len(frame.ant_curr) = 3
    /\ ret.value.ref_antenna = frame.ant_curr[1]
    /\ \E x \in SolvedSlices : CandidateOf(0, x)[2] # 0 /\ IsRealNonNegative(GainOf(0, x))

\* a solve with a reference at the last position was normalized there
C7_WitnessPresent ==
    /\ Returned("gaincal_cpu")
    /\ Len(frame.ant_curr) = 3 /\ frame.ant_curr[3] = frame.ref_ant
    /\ ret.value.ref_antenna = frame.ref_ant
    /\ \E x \in SolvedSlices :
          /\ CandidateOf(2, x)[2] # 0 /\ IsRealNonNegative(GainOf(2, x))
          /\ ~IsRealNonNegative(GainOf(0, x))

-----------------------------------------------------------------------------
(* Claim about derive_gains, checked under SpecDerive *)

DeriveGainsDone == frame.op = "derive_gains" /\ frame.pc = "done" /\ ret.raised = None

\* C8: the ref_ant field of the record derive_gains returns names the antenna
\* the serialized gains were phase-normalized to by the solver, for every
\* requested reference, observed or not.
C8_RecordNamesAntennaNormalizedTo ==
    DeriveGainsDone => ret.value.ref_ant = AntStr(frame.gainsol_dict.ref_antenna)

\* the record names the antenna normalized to whenever the requested reference
\* is among the observed antennas
C8_RecordRightForObservedReference ==
    (DeriveGainsDone /\ InList(ant_numbers_data, AntInd(frame.ref_ant)))
        => ret.value.ref_ant = AntStr(frame.gainsol_dict.ref_antenna)

\* a record was written for a requested reference that is not observed
C8_Witness ==
    /\ DeriveGainsDone
    /\ ~InList(ant_numbers_data, AntInd(frame.ref_ant))
    /\ frame.gainsol_dict.ref_antenna = ant_numbers_data[1]

-----------------------------------------------------------------------------
(* Specification of get_refant *)

RECURSIVE DistinctSeqs(_, _)
DistinctSeqs(S, n) ==
    IF n = 0 THEN {<<>>}
    ELSE LET shorter == DistinctSeqs(S, n - 1)
         IN  shorter \cup UNION {{Append(s, x) : x \in {y \in S : ~InList(s, y)}} : s \in shorter}

\* the names a registry can hold: the telescope's and one it does not know
RegistryNames == {AntStr(n) : n \in 1..(MaxTel + 1)}

\* the registries as lists of <<name, displacement>> in the hash's order
RegistryItems ==
    {Unavailable} \cup
    UNION {{Available([i \in 1..Len(ns) |-> <<ns[i], ds[i]>>]) : ds \in [1..Len(ns) -> DispVals]} :
             ns \in DistinctSeqs(RegistryNames, MaxReg)}

InitRefant ==
    /\ ant_names = [i \in 1..MaxTel |-> AntStr(i)]
    /\ ant_numbers = [i \in 1..MaxTel |-> i]
    /\ \E obs \in (SUBSET (1..MaxTel)) \ {{}} : ant_numbers_data = SortedSeq(obs)
    /\ nant_data = Len(ant_numbers_data)
    /\ \E bad \in SUBSET (1..MaxTel) : bad_refant = [i \in 1..Len(SortedSeq(bad)) |-> AntStr(SortedSeq(bad)[i])]
    /\ antdisp \in RegistryItems
    /\ ant_indices = None /\ vis_data = None
    /\ frame = [op |-> None]
    /\ ret = None

\* self.get_refant()
GetRefant ==
    /\ frame.op = None
    /\ frame' = [op |-> "get_refant"]
    /\ ret' = get_refant(antdisp, ant_names, ant_numbers, ant_numbers_data, bad_refant)
    /\ UNCHANGED <<nant_data, ant_numbers_data, ant_names, ant_numbers, ant_indices,
                   vis_data, bad_refant, antdisp>>

NextRefant == GetRefant

SpecRefant == InitRefant /\ [][NextRefant]_vars

-----------------------------------------------------------------------------
(* Claim about get_refant, checked under SpecRefant *)

\* name is observed and not excluded
Qualifies(name) ==
    /\ InList(ant_names, name)
    /\ ~InList(bad_refant, name)
    /\ InList(ant_numbers_data, ant_numbers[IndexOf(ant_names, name) + 1])

\* rank of the registry's entry i: ascending displacement with -1 last, the
\* hash's order among equals
RankBefore(i, j) ==
    LET ki == antdisp.items[i][2]
        kj == antdisp.items[j][2]
    IN  \/ (ki # -1 /\ kj = -1)
        \/ (ki # -1 /\ kj # -1 /\ ki < kj)
        \/ (ki = kj /\ i < j)

\* the candidate the claim selects, as a set: empty when none qualifies
FirstQualifying ==
    IF ~antdisp.available
    THEN {AntStr(ant_numbers_data[i]) : i \in
            {k \in 1..Len(ant_numbers_data) :
                /\ Qualifies(AntStr(ant_numbers_data[k]))
                /\ \A j \in 1..(k - 1) : ~Qualifies(AntStr(ant_numbers_data[j]))}}
    ELSE {antdisp.items[i][1] : i \in
            {k \in 1..Len(antdisp.items) :
                /\ Qualifies(antdisp.items[k][1])
                /\ \A j \in 1..Len(antdisp.items) :
                      (j # k /\ Qualifies(antdisp.items[j][1])) => RankBefore(k, j)}}

\* C9: get_refant returns the first antenna in priority order (ascending
\* displacement with -1 last; the observed order when the registry is
\* unavailable) that is observed and not excluded, never another, and raises
\* instead of returning when no candidate qualifies.
C9_FirstQualifyingCandidate ==
    Called("get_refant") =>
        IF FirstQualifying = {}
        THEN ret.raised # None /\ ret.value = None
        ELSE ret.raised = None /\ ret.value \in FirstQualifying /\ Qualifies(ret.value)

\* a candidate with displacement -1, an excluded one or an unobserved one came
\* first in the registry and a later entry was returned
C9_Witness ==
    /\ Called("get_refant") /\ antdisp.available /\ Len(antdisp.items) = 2
    /\ antdisp.items[1][2] = -1 /\ antdisp.items[2][2] # -1
    /\ Qualifies(antdisp.items[1][1])
    /\ bad_refant # <<>>
    /\ ret.raised = None /\ ret.value = antdisp.items[2][1]

\* no candidate qualified and the call raised
C9_WitnessRaise ==
    /\ Called("get_refant") /\ antdisp.available /\ Len(antdisp.items) = 2
    /\ ret.raised = "RuntimeError"

-----------------------------------------------------------------------------
(* Claim about get_ant_array_indices, checked under SpecIndices *)

IndicesDone == frame.op = "get_ant_array_indices" /\ frame.pc = "done"

\* C10: for N antennas the table holds exactly N(N+1)/2 pairs: the self-pairs
\* (i,i) in increasing i, then the cross-pairs (i,j), i < j, in row-major
\* order, each unordered pair once; N = 3 gives
\* [(0,0),(1,1),(2,2),(0,1),(0,2),(1,2)].
C10_TableOrder ==
    IndicesDone =>
        LET N == nant_data IN
        /\ ret = ant_indices
        /\ Len(ret) = (N * (N + 1)) \div 2
        /\ \A i \in 0..(N - 1) : ret[i + 1] = <<i, i>>
        /\ \A i \in 0..(N - 1) : \A j \in (i + 1)..(N - 1) :
              ret[N + ((i * (2 * N - i - 1)) \div 2) + (j - i)] = <<i, j>>
        /\ \A k, l \in 1..Len(ret) :
              (k # l) => {ret[k][1], ret[k][2]} # {ret[l][1], ret[l][2]}
        /\ (N = 3) => ret = << <<0, 0>>, <<1, 1>>, <<2, 2>>, <<0, 1>>, <<0, 2>>, <<1, 2>> >>

\* the table of three antennas has been returned
C10_Witness ==
    /\ IndicesDone /\ nant_data = 3
    /\ ret = << <<0, 0>>, <<1, 1>>, <<2, 2>>, <<0, 1>>, <<0, 2>>, <<1, 2>> >>

-----------------------------------------------------------------------------
(* Specification of calc_gain_grade *)

MaxGradeLen == 3     \* most entries of a gain matrix

\* entries of a gain matrix, of rational modulus
GradeVals == {Zero, One, <<-1, 0, 1>>, <<0, 1, 1>>, <<3, 4, 1>>, NonFinite}

InitGrade ==
    /\ nant_data = None /\ ant_numbers_data = None /\ ant_names = None
    /\ ant_numbers = None /\ ant_indices = None /\ vis_data = None
    /\ bad_refant = None /\ antdisp = None
    /\ frame = [op |-> None]
    /\ ret = None

\* calc_gain_grade(gain_matrix); the matrix is held by its entries in order,
\* the sums of line 26 being over all of them
CalcGainGrade ==
    /\ frame.op = None
    /\ \E n \in 0..MaxGradeLen : \E gain_matrix \in [1..n -> GradeVals] : \E warns \in BOOLEAN :
          /\ frame' = [op |-> "calc_gain_grade", gain_matrix |-> gain_matrix]
          /\ ret' = GradeCall(gain_matrix, 1..n, warns)
    /\ UNCHANGED <<nant_data, ant_numbers_data, ant_names, ant_numbers, ant_indices,
                   vis_data, bad_refant, antdisp>>

NextGrade == CalcGainGrade

SpecGrade == InitGrade /\ [][NextGrade]_vars

-----------------------------------------------------------------------------
(* Claims about calc_gain_grade, under SpecGrade *)

\* order of two real values
RLess(x, y) == x[1] * y[3] < y[1] * x[3]
RLeq(x, y) == x[1] * y[3] <= y[1] * x[3]

GradeEntries == {frame.gain_matrix[i] : i \in 1..Len(frame.gain_matrix)}

\* a finite matrix with an entry that is not zero
NonZeroFinite == (\A g \in GradeEntries : isfinite(g)) /\ (\E g \in GradeEntries : g # Zero)

\* a and b have the same argument
SameAngle(a, b) == LET q == CMul(a, conj(b)) IN q[2] = 0 /\ q[1] > 0

\* the gains that have a phase share it
OnePhase == \A a, b \in GradeEntries \ {Zero} : SameAngle(a, b)

\* grade in (0,1], [0,1], and grade = 1, on the pair <<|sum|^2, norm>>
GradePositive == RLess(Zero, ret.value[1])
GradeInUnit == RLeq(Zero, ret.value[1]) /\ RLeq(ret.value[1], CMul(ret.value[2], ret.value[2]))
GradeIsOne == ret.value[1] = CMul(ret.value[2], ret.value[2])

\* C11 as stated: for any non-zero gain vector the grade lies in (0,1], and it
\* is 1 if and only if all antenna gains share identical phase (a zero gain
\* has no phase to differ by).
C11_GradeInHalfOpenUnit ==
    (Called("calc_gain_grade") /\ NonZeroFinite) =>
        /\ ret.value # Sentinel
        /\ GradePositive /\ GradeInUnit
        /\ GradeIsOne <=> OnePhase

\* C11 amended: for any non-zero gain vector the grade lies in [0,1] (it is 0
\* when the gains cancel), and it is 1 if and only if all the gains that are
\* not zero share identical phase.
C11_GradeInClosedUnit ==
    (Called("calc_gain_grade") /\ NonZeroFinite) =>
        /\ ret.raised = None /\ ret.value # Sentinel
        /\ GradeInUnit
        /\ GradeIsOne <=> OnePhase

\* a grade of 0 was returned for gains that cancel
C11_Witness ==
    /\ Called("calc_gain_grade") /\ NonZeroFinite
    /\ ret.value # Sentinel /\ ret.value[1] = Zero

\* a grade of 1 was returned for three gains of one phase, and a grade
\* strictly between 0 and 1 for some matrix
C11_WitnessOne ==
    /\ Called("calc_gain_grade") /\ NonZeroFinite
    /\ Len(frame.gain_matrix) = 3 /\ Zero \notin GradeEntries
    /\ GradeIsOne

\* C12: calc_gain_grade never propagates an exception; it returns the sentinel
\* -1 when the sum of the gain magnitudes is zero (or the ratio cannot be
\* formed from non-finite sums), and for every other input it returns the
\* computed ratio, which is never -1.
C12_SentinelOnlyWhenUngradable ==
    Called("calc_gain_grade") =>
        LET idx == 1..Len(frame.gain_matrix)
            norm == CSum([i \in idx |-> CAbs(frame.gain_matrix[i])], idx)
            sum == CSum(frame.gain_matrix, idx)
        IN  /\ ret.raised = None
            /\ (norm = Zero) => ret.value = Sentinel
            /\ (isfinite(norm) /\ norm # Zero) => ret.value = <<AbsSq(sum), norm>>
            /\ (ret.value = Sentinel) => (norm = Zero \/ ~isfinite(norm))

\* the sentinel was returned for a matrix of two zero gains
C12_Witness ==
    /\ Called("calc_gain_grade")
    /\ frame.gain_matrix = <<Zero, Zero>>
    /\ ret.raised = None /\ ret.value = Sentinel

-----------------------------------------------------------------------------
(* Specification of the RFI flaggers *)

FlagAnt == 2         \* observed antennas
FlagTimes == 2       \* time samples
FlagPols == 2        \* polarizations
MaxChan == 4         \* most channels

\* levels of a spectrum, directions of the complex plane they lie along, and
\* thresholds (3 is the default of flag_rfi_vis)
FlagLevels == {0, 1, 5}
FlagDirections == {One, <<0, 1, 1>>}
Thresholds == {<<1, 0, 2>>, <<3, 0, 1>>}

\* a dataset: the spectrum s0 along direction u, shifted by e channels from one
\* baseline or polarization to the next, rising by one level per time sample
FlagData(nbl, nchan, s0, e, u) ==
    Held([i \in 0..(nbl - 1) |-> Held([t \in 0..(FlagTimes - 1) |-> Held([c \in 0..(nchan - 1) |->
        Held([pol \in 0..(FlagPols - 1) |->
            CMul(u, <<s0[(c + e * (pol + i)) % nchan] + t, 0, 1>>)])])])])

FlagDatasets(nbl) ==
    UNION {{FlagData(nbl, nchan, s0, e, u) :
               s0 \in [0..(nchan - 1) -> FlagLevels], e \in {0, 1}, u \in FlagDirections} :
           nchan \in 1..MaxChan}

InitFlag ==
    /\ nant_data = FlagAnt
    /\ ant_numbers_data = [i \in 1..FlagAnt |-> 20 + i]
    /\ ant_names = [i \in 1..FlagAnt |-> AntStr(20 + i)]
    /\ ant_numbers = [i \in 1..FlagAnt |-> 20 + i]
    /\ ant_indices = get_ant_array_indices(FlagAnt)
    /\ vis_data \in FlagDatasets(Len(get_ant_array_indices(FlagAnt)))
    /\ bad_refant = None /\ antdisp = None
    /\ frame = [op |-> None]
    /\ ret = None

FlagUnchanged == UNCHANGED <<nant_data, ant_numbers_data, ant_names, ant_numbers,
                             ant_indices, bad_refant, antdisp>>

\* vis, flagged = flag_complex_vis_medf(self.vis_data, threshold), called on
\* the buffer of the object; r is what the call gives
FlagCallDone(op, run, visibilities, threshold, r, locals) ==
    /\ frame' = [op |-> op, run |-> run, visibilities |-> visibilities,
                 threshold |-> threshold, locals |-> locals]
    /\ ret' = [raised |-> r.raised, vis |-> r.vis, flagged_vis_indx |-> r.flagged_vis_indx]
    /\ vis_data' = IF r.raised = None /\ run = 1 THEN CallerArrayAfter(vis_data, r.vis)
                   ELSE vis_data

MedfDone(run, visibilities, threshold, r) ==
    FlagCallDone("flag_complex_vis_medf", run, visibilities, threshold, r, r.stats)

SmwDone(run, visibilities, threshold, r) ==
    FlagCallDone("flag_complex_vis_smw", run, visibilities, threshold, r, r.locals)

FlagMedf ==
    /\ frame.op = None
    /\ \E threshold \in Thresholds :
          MedfDone(1, vis_data, threshold, flag_complex_vis_medf(vis_data, threshold))
    /\ FlagUnchanged

\* the same call on the array the first one returned
FlagMedfAgain ==
    /\ frame.op = "flag_complex_vis_medf" /\ frame.run = 1
    /\ MedfDone(2, ret.vis, frame.threshold, flag_complex_vis_medf(ret.vis, frame.threshold))
    /\ FlagUnchanged

\* vis, flagged = flag_complex_vis_smw(self.vis_data, threshold)
FlagSmw ==
    /\ frame.op = None
    /\ \E threshold \in Thresholds :
          SmwDone(1, vis_data, threshold, flag_complex_vis_smw(vis_data, threshold))
    /\ FlagUnchanged

FlagSmwAgain ==
    /\ frame.op = "flag_complex_vis_smw" /\ frame.run = 1 /\ ret.raised = None
    /\ SmwDone(2, ret.vis, frame.threshold, flag_complex_vis_smw(ret.vis, frame.threshold))
    /\ FlagUnchanged

\* self.flag_rfi_vis(threshold), lines 175-186: line 182 binds self.vis_data
\* to the array returned
RfiVisDone(threshold, r) ==
    /\ frame' = [op |-> "flag_rfi_vis", run |-> 1, visibilities |-> vis_data,
                 threshold |-> threshold, locals |-> r.stats]
    /\ vis_data' = r.vis
    /\ ret' = [raised |-> None, vis |-> None,
               flagged_vis_indx |-> r.flagged_vis_indx,
               value |-> derive_flagged_frequencies(r.flagged_vis_indx, AntStr(21),
                                                    ant_indices, ant_names)]

FlagRfiVis ==
    /\ frame.op = None
    /\ \E threshold \in Thresholds :
          RfiVisDone(threshold, flag_complex_vis_medf(vis_data, threshold))
    /\ FlagUnchanged

NextFlag == FlagMedf \/ FlagMedfAgain \/ FlagSmw \/ FlagSmwAgain \/ FlagRfiVis

SpecFlag == InitFlag /\ [][NextFlag]_vars

-----------------------------------------------------------------------------
(* Claims about the RFI flaggers, under SpecFlag *)

Medf == frame.op = "flag_complex_vis_medf"
Smw == frame.op = "flag_complex_vis_smw"

FlagBls == DOMAIN frame.visibilities
FlagTimeIdx == DOMAIN frame.visibilities[0]
FlagChans == DOMAIN frame.visibilities[0][0]
FlagPolIdx == DOMAIN frame.visibilities[0][0][0]

\* the channels the call just made flagged for baseline i, polarization pol
FlaggedIn(i, pol) ==
    IF Smw THEN frame.locals.bad_chans[i][pol] ELSE frame.locals[i][pol].bad

\* the time-averaged spectrum of (i, pol) the call worked on
AvgColumn(i, pol) == Column(vis_avg(frame.visibilities)[i], pol)

\* the MAD the call tested (i, pol) against: of the spectrum for the
\* global-median variant, of the residual for the smoothed-bandpass variant
TestedMad(i, pol) ==
    IF Smw
    THEN mad(Column(PolDiff(vis_avg(frame.visibilities)[i], frame.locals.smth_bp[i]), pol))
    ELSE mad(AvgColumn(i, pol))

\* C13: re-applying either flagger variant, with the same threshold, to the
\* corrected array it just returned flags no channel on any baseline or
\* polarization.
C13_RerunFlagsNothing ==
    ((Medf \/ Smw) /\ frame.run = 2) =>
        /\ ret.raised = None
        /\ \A i \in FlagBls : \A pol \in FlagPolIdx : FlaggedIn(i, pol) = {}

\* C14: the window size flag_complex_vis_smw passes to the bandpass model is
\* at least 10 and at most 20, for every channel count.
C14_WindowClamped == Smw => (frame.locals.win >= 10 /\ frame.locals.win <= 20)

\* C15: whenever the MAD of a baseline/polarization spectrum (global-median
\* variant) or of its residual (smoothed-bandpass variant) is zero, the flagger
\* flags no channel of it, raises nothing, and returns that data unchanged.
C15_ZeroMadFlagsNothing ==
    ((Medf \/ Smw) /\ frame.run = 1) =>
        \A i \in FlagBls : \A pol \in FlagPolIdx :
            (TestedMad(i, pol) = Zero) =>
                /\ ret.raised = None
                /\ FlaggedIn(i, pol) = {}
                /\ \A t \in FlagTimeIdx : \A c \in FlagChans :
                      ret.vis[i][t][c][pol] = frame.visibilities[i][t][c][pol]

\* C16: in flag_complex_vis_smw, for every channel c flagged for (b, p), every
\* time sample of the returned array at (b, t, c, p) equals the smoothed
\* bandpass model at channel c and polarization p, and the call completes, for
\* any number of time samples and of flagged channels.
C16_FlaggedSamplesGetModel ==
    (Smw /\ frame.run = 1) =>
        /\ ret.raised = None
        /\ \A i \in FlagBls : \A pol \in FlagPolIdx : \A c \in FlaggedIn(i, pol) :
              \A t \in FlagTimeIdx : ret.vis[i][t][c][pol] = frame.locals.smth_bp[i][c][pol]

\* with one flagged channel, the case the assignment handles, the samples
\* do get the model value
C16_OneFlaggedChannelGetsModel ==
    (Smw /\ frame.run = 1 /\ ret.raised = None) =>
        \A i \in FlagBls : \A pol \in FlagPolIdx :
            (Cardinality(FlaggedIn(i, pol)) = 1) =>
                \A c \in FlaggedIn(i, pol) : \A t \in FlagTimeIdx :
                    ret.vis[i][t][c][pol] = frame.locals.smth_bp[i][c][pol]

\* C17: in flag_complex_vis_medf a channel of a baseline/polarization is
\* flagged exactly when its time-averaged value deviates from the spectrum's
\* median by strictly more than threshold x MAD; every time sample of a
\* flagged channel is replaced by that median and every sample of an
\* unflagged channel is the input's.
C17_MedfFlagsAndReplaces ==
    (Medf /\ frame.run = 1) =>
        /\ ret.raised = None
        /\ \A i \in FlagBls : \A pol \in FlagPolIdx :
              LET col == AvgColumn(i, pol)
                  med == Median(col)
                  lim == CMul(frame.threshold, mad(col))
              IN  \A c \in FlagChans :
                    /\ c \in FlaggedIn(i, pol) <=> RLess(lim, CAbs(CSub(col[c + 1], med)))
                    /\ \A t \in FlagTimeIdx :
                          ret.vis[i][t][c][pol] =
                              IF c \in FlaggedIn(i, pol) THEN med
                              ELSE frame.visibilities[i][t][c][pol]

\* a flagged channel whose time samples differed was set to the median at
\* every time, next to a channel that deviates and was kept
C17_Witness ==
    /\ Medf /\ frame.run = 1
    /\ \E i \in FlagBls : \E pol \in FlagPolIdx : \E c, d \in FlagChans :
          /\ c \in FlaggedIn(i, pol) /\ d \notin FlaggedIn(i, pol)
          /\ frame.visibilities[i][0][c][pol] # frame.visibilities[i][1][c][pol]
          /\ \A t \in FlagTimeIdx : ret.vis[i][t][c][pol] = frame.locals[i][pol].med
          /\ AvgColumn(i, pol)[d + 1] # frame.locals[i][pol].med
          /\ \A t \in FlagTimeIdx : ret.vis[i][t][d][pol] = frame.visibilities[i][t][d][pol]

\* the channels of the list returned for baseline i
ListedChannels(i) ==
    IF Smw THEN ret.flagged_vis_indx[i]
    ELSE [k \in 1..Len(ret.flagged_vis_indx[i]) |-> ret.flagged_vis_indx[i][k][1]]

C18_WitnessSmw ==
    /\ Smw /\ frame.run = 1 /\ ret.raised = None
    /\ \E i \in FlagBls : \E c \in FlaggedIn(i, 1) :
          /\ c \notin FlaggedIn(i, 0) /\ FlaggedIn(i, 0) # {}
          /\ \A k \in 1..Len(ListedChannels(i)) : ListedChannels(i)[k] # c

\* C19 as stated: the flagger (either variant) mutates the buffer it is passed
\* in place: after the call the caller's input array holds the corrected data.
C19_FlaggerMutatesInput ==
    ((Medf \/ Smw) /\ frame.run = 1 /\ ret.raised = None) => vis_data = ret.vis

\* C19 amended: the flagger (either variant) works on a copy: after the call
\* the array it was passed still holds the unflagged data and the corrected
\* data is in the array returned; flag_rfi_vis binds the buffer of the object
\* to the array returned, so that buffer holds the corrected data.
C19_FlaggerWorksOnCopy ==
    /\ ((Medf \/ Smw) /\ frame.run = 1) => vis_data = frame.visibilities
    /\ Called("flag_rfi_vis") =>
          \A i \in FlagBls : \A pol \in FlagPolIdx : \A c \in FlagChans : \A t \in FlagTimeIdx :
              vis_data[i][t][c][pol] =
                  IF c \in FlaggedIn(i, pol) THEN frame.locals[i][pol].med
                  ELSE frame.visibilities[i][t][c][pol]

\* a call flagged a channel, the array returned differs from the array
\* passed, and the array passed is as it was
C19_Witness ==
    /\ Medf /\ frame.run = 1
    /\ \E i \in FlagBls : \E pol \in FlagPolIdx : FlaggedIn(i, pol) # {}
    /\ ret.vis # frame.visibilities
    /\ vis_data = frame.visibilities

-----------------------------------------------------------------------------
(* Claim about the baseline axis, under SpecApplycal *)

\* C20: applycal (as gaincal_cpu) fails, modifying no visibility sample,
\* whenever the data's baseline-axis length differs from the table's length,
\* whether the data has more baselines than the table or fewer.
C20_BaselineMismatchIsFatal ==
    (Called("applycal") /\ Shape0(frame.data) # Len(ant_indices)) =>
        (ret.raised # None /\ vis_data = frame.data)

-----------------------------------------------------------------------------
(* Claims about the correlation matrix of gaincal_cpu, under SpecGaincal *)

\* gaincal_cpu has seeded its matrix and not failed
Solving == frame.op = "gaincal_cpu" /\ frame.raised = None

MatrixSlices == {<<t, f, p>> : t \in DOMAIN frame.tdata, f \in Freqs, p \in Pols}

\* the slice x of the matrix as it is, and as the seeding left it
MatrixAt(x) == frame.tdata[x[1]][x[2]][x[3]]
SeedAt(x) == frame.seed[x[1]][x[2]][x[3]]

\* the visibility of baseline bl that the matrix is built from, in slice x
VisAt(bl, x) == frame.data[bl][x[1]][x[2]][x[3]]

IsHermitian(m) ==
    \A a \in DOMAIN m : \A b \in DOMAIN m :
        /\ m[a][b] = conj(m[b][a])
        /\ a = b => m[a][a][2] = 0

\* C23: the matrix seeded by gaincal_cpu holds, for every baseline whose table
\* entry (a0, a1) has a0 # a1, the baseline's visibility at [a0, a1] and its
\* conjugate at [a1, a0]; measured autocorrelations never enter it, its
\* diagonal being zero before the first iteration; and the matrix is Hermitian
\* with a real diagonal before and after every iteration.
C23_SeededMatrixHermitian ==
    Solving =>
        \A x \in MatrixSlices :
            /\ \A bl \in DOMAIN frame.data :
                  LET a0 == ant_indices[bl + 1][1]
                      a1 == ant_indices[bl + 1][2]
                  IN  a0 # a1 => /\ SeedAt(x)[a0][a1] = VisAt(bl, x)
                                 /\ SeedAt(x)[a1][a0] = conj(VisAt(bl, x))
            /\ \A a \in DOMAIN SeedAt(x) : SeedAt(x)[a][a] = Zero
            /\ frame.it = 0 => MatrixAt(x) = SeedAt(x)
            /\ IsHermitian(MatrixAt(x))

\* after an iteration: a measured autocorrelation was not zero and is not in
\* the seeded matrix, a visibility with an imaginary part sits conjugated
\* below the diagonal, and the diagonal has been written
C23_Witness ==
    /\ Solving /\ frame.it >= 1
    /\ \E x \in MatrixSlices :
          /\ \E bl \in DOMAIN frame.data :
                /\ ant_indices[bl + 1][1] = ant_indices[bl + 1][2]
                /\ VisAt(bl, x) # Zero
          /\ \E bl \in DOMAIN frame.data :
                LET a0 == ant_indices[bl + 1][1]
                    a1 == ant_indices[bl + 1][2]
                IN  /\ a0 # a1 /\ VisAt(bl, x)[2] # 0
                    /\ MatrixAt(x)[a1][a0] = conj(VisAt(bl, x))
                    /\ MatrixAt(x)[a1][a0] # MatrixAt(x)[a0][a1]
          /\ \E a \in DOMAIN MatrixAt(x) : MatrixAt(x)[a][a] # Zero

\* the eigendecompositions done, in the loop and when the solver has left it
ExactlyNitPasses ==
    /\ Solving => frame.it <= nit
    /\ (Solving /\ frame.pc \in {"normalize", "returned"}) => frame.it = nit
    /\ (Solving /\ frame.pc = "eigh") => frame.it < nit

\* what a step that changes the pass count does
PassWritesOnlyDiagonal ==
    (frame.op = "gaincal_cpu" /\ frame'.op = "gaincal_cpu" /\ frame'.it # frame.it) =>
          /\ frame.pc = "eigh" /\ frame.it < nit /\ frame'.it = frame.it + 1
          /\ frame'.pc = (IF frame'.it = nit THEN "normalize" ELSE "eigh")
          /\ \A t \in DOMAIN frame.tdata : \A f \in Freqs : \A p \in Pols :
                LET old == frame.tdata[t][f][p]
                    new == frame'.tdata[t][f][p]
                    sv == frame'.sv[t][f][p]
                IN  \A a \in DOMAIN old : \A b \in DOMAIN old :
                        /\ a # b => (new[a][b] = old[a][b] /\ new[a][b] = frame.seed[t][f][p][a][b])
                        /\ a = b => new[a][a] = AbsSq(sv[a])
                        /\ RowZero(old, a) => sv[a] = Zero
          /\ frame'.seed = frame.seed

\* C24: gaincal_cpu performs exactly nit eigendecompositions and then stops;
\* each one writes only the diagonal of the matrix, entry k becoming the
\* largest eigenvalue x |eigenvector_k|^2 of the matrix as it stood when the
\* pass began (zero for an antenna whose row of that matrix was zero), and
\* every off-diagonal entry stays at its seeded value.
C24_NitPassesWriteOnlyDiagonal == []ExactlyNitPasses /\ [][PassWritesOnlyDiagonal]_vars

\* the solver has done its nit passes; the diagonal differs from the seeded
\* one and an off-diagonal entry that is not zero is as seeded
C24_Witness ==
    /\ Solving /\ frame.pc = "normalize" /\ frame.it = nit
    /\ \E x \in MatrixSlices : \E a, b \in DOMAIN MatrixAt(x) :
          /\ a # b /\ MatrixAt(x)[a][b] # Zero /\ MatrixAt(x)[a][b] = SeedAt(x)[a][b]
          /\ MatrixAt(x)[a][a] # Zero /\ SeedAt(x)[a][a] = Zero

-----------------------------------------------------------------------------
(* Claim about the buffer and the record of derive_gains, under SpecDerive *)

\* the gains the record holds for the antenna at position i of the solution g
RecordHoldsGainsOf(g) ==
    \A i \in 1..Len(g.antennas) : \A f \in Freqs :
        /\ AntStr(g.antennas[i]) \in DOMAIN ret.value.gains
        /\ ret.value.gains[AntStr(g.antennas[i])].gain_pol0[f] = g.gain_val[i - 1][0][f][0]
        /\ ret.value.gains[AntStr(g.antennas[i])].gain_pol1[f] = g.gain_val[i - 1][0][f][3]

\* C28: derive_gains leaves the object's visibility buffer as it was when
\* calculate_grade is not set and, when it is set, leaves it as the phase-only
\* application of the just-derived gains made it, solving again from that;
\* the gains of the record are always those solved from the buffer as it was
\* on entry; grade and proposed_gain_grade are in the record exactly when
\* calculate_grade is set.
C28_GradeOnlyTouchesBuffer ==
    (frame.op = "derive_gains" /\ frame.pc = "done") =>
        /\ frame.solved_from = frame.entry
        /\ ~frame.calculate_grade => vis_data = frame.entry
        /\ frame.calculate_grade =>
              /\ vis_data = applycal(frame.entry, frame.gainsol_dict, ant_numbers_data,
                                     ant_indices, TRUE).data
              /\ frame.proposed_from = vis_data
        /\ ret.raised = None =>
              /\ RecordHoldsGainsOf(frame.gainsol_dict)
              /\ ("grade" \in DOMAIN ret.value) <=> frame.calculate_grade
              /\ ("proposed_gain_grade" \in DOMAIN ret.value) <=> frame.calculate_grade

\* a graded call changed the buffer, solved again to other gains, and the
\* record holds the first ones with both grades
C28_Witness ==
    /\ DeriveGainsDone /\ frame.calculate_grade
    /\ vis_data # frame.entry
    /\ frame.proposed_gainsol_dict.gain_val # frame.gainsol_dict.gain_val
    /\ ~RecordHoldsGainsOf(frame.proposed_gainsol_dict)
    /\ RecordHoldsGainsOf(frame.gainsol_dict)
    /\ "grade" \in DOMAIN ret.value

\* an ungraded call returned a record without grades, the buffer as it was
C28_WitnessUngraded ==
    /\ DeriveGainsDone /\ ~frame.calculate_grade
    /\ vis_data = frame.entry
    /\ "grade" \notin DOMAIN ret.value

-----------------------------------------------------------------------------
(* Specification of the median window of flag_rfi_complex_pol *)

MaxSpectrum == 6     \* most channels of a spectrum
MaxWin == 9          \* window sizes are 0..MaxWin

\* the indices data[mn:mx] reads of an n-channel axis: a negative bound counts
\* from the end, and the bounds are clipped to the axis
SliceBound(k, n) == IF k < 0 THEN (IF k + n < 0 THEN 0 ELSE k + n) ELSE IF k > n THEN n ELSE k
SliceIndices(mn, mx, n) == {k \in 0..(n - 1) : SliceBound(mn, n) <= k /\ k < SliceBound(mx, n)}

InitWindow ==
    /\ nant_data = None /\ ant_numbers_data = None /\ ant_names = None /\ ant_numbers = None
    /\ ant_indices = None /\ vis_data = None /\ bad_refant = None /\ antdisp = None
    /\ frame = [op |-> None]
    /\ ret = None

\* lines 68-71 for channel i of an n-channel spectrum
SmoothChannel ==
    /\ \E n \in 1..MaxSpectrum, winSize \in 0..MaxWin :
          \E i \in 0..(n - 1) :
              LET mn == WindowLow(i, winSize)
                  mx == WindowHigh(i, winSize, n)
              IN  frame' = [op |-> "smooth", n |-> n, winSize |-> winSize, i |-> i,
                            mn |-> mn, mx |-> mx, read |-> SliceIndices(mn, mx, n)]
    /\ UNCHANGED <<nant_data, ant_numbers_data, ant_names, ant_numbers, ant_indices,
                   vis_data, bad_refant, antdisp, ret>>

NextWindow == SmoothChannel

SpecWindow == InitWindow /\ [][NextWindow]_vars

\* C25: for every window size >= 0 and every channel i of an n-channel
\* spectrum the median of flag_rfi_complex_pol is taken over the contiguous
\* channels from max(0, i - win/2) up to but excluding min(i + win/2 + 1, n),
\* truncated to integers: the range lies within [0, n), is not empty, contains
\* channel i and does not wrap around an edge of the spectrum.
C25_WindowClippedNotWrapped ==
    Called("smooth") =>
        /\ 0 <= frame.mn /\ frame.mn <= frame.i /\ frame.i < frame.mx /\ frame.mx <= frame.n
        /\ frame.read = frame.mn..(frame.mx - 1)
        /\ \A k \in frame.read : 2 * (k - frame.i) <= frame.winSize + 1
                              /\ 2 * (frame.i - k) <= frame.winSize + 1
        /\ \A k \in 0..(frame.n - 1) :
              (2 * (k - frame.i) <= frame.winSize /\ 2 * (frame.i - k) <= frame.winSize)
                  => k \in frame.read

\* a window cut at the low edge, and one cut at the high edge, of a spectrum
\* it does not cover
C25_Witness ==
    /\ Called("smooth") /\ frame.i = 0 /\ frame.winSize >= 2
    /\ frame.mn = 0 /\ frame.mx < frame.n /\ Cardinality(frame.read) >= 2

C25_WitnessHigh ==
    /\ Called("smooth") /\ frame.i = frame.n - 1 /\ frame.winSize >= 2
    /\ frame.mx = frame.n /\ frame.mn > 0 /\ Cardinality(frame.read) >= 2

-----------------------------------------------------------------------------
(* Specification of derive_flagged_frequencies *)

FlagTel == 3         \* antennas of the telescope, numbered from 20

\* the increasing lists of at least two of the telescope's antennas: get_ants()
\* of a file in which some antennas may have no data
ObservedSubsets ==
    {SortedSeq(S) : S \in {T \in SUBSET {19 + i : i \in 1..FlagTel} : Cardinality(T) >= 2}}

\* the lists flag_complex_vis_medf can return for a baseline
FlaggedLists == {<<>>, << <<1>> >>, << <<0>>, <<2>> >>}

\* the constructor on a file: metadata['ant_names'] and ['ant_numbers'] list
\* the telescope's antennas, ['ant_numbers_data'] those with data
InitFlagged ==
    /\ ant_numbers = [i \in 1..FlagTel |-> 19 + i]
    /\ ant_names = [i \in 1..FlagTel |-> AntStr(19 + i)]
    /\ ant_numbers_data \in ObservedSubsets
    /\ nant_data = Len(ant_numbers_data)
    /\ ant_indices = get_ant_array_indices(nant_data)
    /\ vis_data = None /\ bad_refant = None /\ antdisp = None
    /\ frame = [op |-> None]
    /\ ret = None

\* self.derive_flagged_frequencies(flagged_visibility_idx, ref_ant = 'ea21'),
\* the call of flag_rfi_vis, line 183
DeriveFlaggedFrequencies ==
    /\ frame.op = None
    /\ \E flagged_visibility_idx \in [0..(Len(ant_indices) - 1) -> FlaggedLists] :
          /\ frame' = [op |-> "derive_flagged_frequencies",
                       flagged_visibility_idx |-> flagged_visibility_idx,
                       ref_ant |-> AntStr(21)]
          /\ ret' = [raised |-> None,
                     value |-> derive_flagged_frequencies(flagged_visibility_idx, AntStr(21),
                                                          ant_indices, ant_names)]
    /\ UNCHANGED <<nant_data, ant_numbers_data, ant_names, ant_numbers, ant_indices,
                   vis_data, bad_refant, antdisp>>

NextFlagged == DeriveFlaggedFrequencies

SpecFlagged == InitFlagged /\ [][NextFlagged]_vars

\* the name of the antenna at position p of the baseline table, the position
\* in the list of antennas with data
PositionName(p) == AntStr(ant_numbers_data[p + 1])

\* the cross baselines of the reference with a flagged channel, each with the
\* position of its other antenna
ReferenceBaselines ==
    {x \in (0..(Len(ant_indices) - 1)) \X (0..(nant_data - 1)) :
        LET a0 == ant_indices[x[1] + 1][1]
            a1 == ant_indices[x[1] + 1][2]
        IN  /\ a0 # a1
            /\ Len(frame.flagged_visibility_idx[x[1]]) # 0
            /\ \/ (PositionName(a1) = frame.ref_ant /\ x[2] = a0)
               \/ (PositionName(a0) = frame.ref_ant /\ x[2] = a1)}

\* the frequencies of the channels flagged on baseline bl
BaselineHz(bl) ==
    [k \in 1..Len(frame.flagged_visibility_idx[bl]) |->
        freq_array(frame.flagged_visibility_idx[bl][k][1])]

\* C26: derive_flagged_frequencies returns an entry for antenna X if and only
\* if a cross baseline pairing X with the fixed reference antenna has a
\* non-empty flagged-channel list, the entry holding the frequencies of that
\* baseline's flagged channels; autocorrelations and baselines without the
\* reference contribute nothing and the reference is never a key.
C26_EntriesOfReferenceBaselines ==
    Called("derive_flagged_frequencies") =>
        ret.value = {<<PositionName(x[2]), BaselineHz(x[1])>> : x \in ReferenceBaselines}

\* the claim on files in which every telescope antenna has data
C26_RightWhenEveryAntennaHasData ==
    (Called("derive_flagged_frequencies") /\ nant_data = Len(ant_names)) =>
        ret.value = {<<PositionName(x[2]), BaselineHz(x[1])>> : x \in ReferenceBaselines}

-----------------------------------------------------------------------------
(* calibrate_uvh5.get_res_delays *)

fin_nchan == 1024    \* fine channels of the inverse transform

\* line 603-604: the lag of fine channel k after fftshift, in lag steps
tlags(k) == k - fin_nchan \div 2

\* lines 654-655 and 665-666: the index of the peak of |ifft| of one baseline,
\* time and polarization.  The transform is not computed here: an all-zero
\* spectrum has its argmax at index 0, a real non-negative one (an
\* autocorrelation) at zero lag, any other where its phase slope puts it
AutoPeaks == <<fin_nchan \div 2, 0>>
CrossPeaks == <<fin_nchan \div 2 + 3, fin_nchan \div 2 - 1, 0, fin_nchan \div 2>>

\* np.mean(delay_vals[bl, :, pol]) for the peaks of one baseline
MeanDelay(peaks, pol) ==
    CDiv(CSum([t \in Times |-> <<tlags(peaks[t][pol]), 0, 1>>], Times), <<NTime, 0, 1>>)

\* line 683: the delay written when the reference is the first of the pair
NegateBug(x) == x
Negate(x) == CMul(<<-1, 0, 1>>, x)

\* lines 670-685: the rows that baseline (ant1, ant2) adds to the file
ResRows(ant1_str, ant2_str, ref_ant, m0, m1) ==
    IF ref_ant # ant1_str /\ ref_ant # ant2_str THEN <<>>
    ELSE LET ant_new == IF ant1_str = ref_ant THEN ant2_str ELSE ant1_str
         IN  IF ant1_str = ref_ant /\ ant2_str = ref_ant
             THEN << <<ant_new, m0, m1>> >>
             ELSE (IF ant1_str = ref_ant THEN << <<ant_new, Negate(m0), Negate(m1)>> >> ELSE <<>>)
                   \o (IF ant2_str = ref_ant THEN << <<ant_new, m0, m1>> >> ELSE <<>>)

\* lines 645-685: the loop over the baselines, from baseline bl on
RECURSIVE ResLoop(_, _, _, _, _)
ResLoop(bl, peaks, ant1, ant2, ref_ant) ==
    IF bl > Len(ant1) THEN <<>>
    ELSE ResRows(AntStr(ant1[bl]), AntStr(ant2[bl]), ref_ant,
                 MeanDelay(peaks[bl], 0), MeanDelay(peaks[bl], 1))
           \o ResLoop(bl + 1, peaks, ant1, ant2, ref_ant)

\* the method: None when the file cannot be opened, else the rows written
get_res_delays(peaks, ant1, ant2, ref_ant, writable) ==
    IF writable THEN [written |-> TRUE, rows |-> ResLoop(1, peaks, ant1, ant2, ref_ant)]
    ELSE [written |-> FALSE, rows |-> <<>>]

-----------------------------------------------------------------------------
(* Specification of get_res_delays *)

MaxPeak == 5         \* peak patterns are numbered 0..MaxPeak

\* the peaks [time, pol] of every baseline of a file
DelayPeaks(d, table) ==
    [bl \in 1..Len(table) |-> [t \in Times |-> [pol \in 0..1 |->
        IF table[bl][1] = table[bl][2]
        THEN AutoPeaks[((d + bl + pol) % Len(AutoPeaks)) + 1]
        ELSE CrossPeaks[((d + bl + t * (d % 2) + pol) % Len(CrossPeaks)) + 1]]]]

InitDelays ==
    /\ nant_data \in 2..MaxAnt
    /\ ant_numbers_data \in ObservedLists(nant_data)
    /\ ant_names = None /\ ant_numbers = None /\ bad_refant = None /\ antdisp = None
    /\ ant_indices = get_ant_array_indices(nant_data)
    /\ vis_data = None
    /\ frame = [op |-> None]
    /\ ret = None

\* self.get_res_delays(data, outdir, ref_ant); line 607 reads the antennas of
\* each baseline from the file, which holds them in the table's order
GetResDelays ==
    /\ frame.op = None
    /\ \E n \in 1..(nant_data + 2), d \in 0..MaxPeak, writable \in BOOLEAN :
          LET ant1 == [bl \in 1..Len(ant_indices) |-> ant_numbers_data[ant_indices[bl][1] + 1]]
              ant2 == [bl \in 1..Len(ant_indices) |-> ant_numbers_data[ant_indices[bl][2] + 1]]
              peaks == DelayPeaks(d, ant_indices)
          IN  /\ frame' = [op |-> "get_res_delays", ref_ant |-> AntStr(n), peaks |-> peaks,
                           ant1 |-> ant1, ant2 |-> ant2]
              /\ ret' = [raised |-> None,
                         value |-> get_res_delays(peaks, ant1, ant2, AntStr(n), writable)]
    /\ UNCHANGED <<nant_data, ant_numbers_data, ant_names, ant_numbers, ant_indices,
                   vis_data, bad_refant, antdisp>>

NextDelays == GetResDelays

SpecDelays == InitDelays /\ [][NextDelays]_vars

-----------------------------------------------------------------------------
(* Claim about get_res_delays, under SpecDelays *)

ResWritten == Called("get_res_delays") /\ ret.value.written

\* the baselines of the file that include the reference, in file order
ReferencePairs ==
    SortedSeq({bl \in 1..Len(frame.ant1) :
                  AntStr(frame.ant1[bl]) = frame.ref_ant \/ AntStr(frame.ant2[bl]) = frame.ref_ant})

\* the antenna of baseline bl that is not the reference (the reference itself
\* on its autocorrelation)
OtherAntenna(bl) ==
    IF AntStr(frame.ant1[bl]) = frame.ref_ant THEN AntStr(frame.ant2[bl])
    ELSE AntStr(frame.ant1[bl])

ReferenceFirst(bl) == AntStr(frame.ant1[bl]) = frame.ref_ant
ReferenceSecond(bl) == AntStr(frame.ant2[bl]) = frame.ref_ant

\* the time-averaged delay of baseline bl in polarization pol
BaselineDelay(bl, pol) ==
    LET sum == CSum([t \in Times |-> <<tlags(frame.peaks[bl][t][pol]), 0, 1>>], Times)
    IN  CDiv(sum, <<NTime, 0, 1>>)

Opposite(x) == <<-x[1], x[2], x[3]>>

\* one row for each baseline of the reference, labelled with the other antenna
RowsAreReferencePairs ==
    /\ Len(ret.value.rows) = Len(ReferencePairs)
    /\ \A k \in 1..Len(ReferencePairs) : ret.value.rows[k][1] = OtherAntenna(ReferencePairs[k])
    /\ \A a \in 1..nant_data :
          (AntStr(ant_numbers_data[a]) # frame.ref_ant /\ ReferencePairs # <<>>) =>
              Cardinality({k \in 1..Len(ret.value.rows) :
                              ret.value.rows[k][1] = AntStr(ant_numbers_data[a])}) = 1

\* C21 as stated: a row is written only for the baselines that include the
\* reference, labelled with the other antenna of the pair, one row for each
\* non-reference antenna; the time-averaged delay is negated when the
\* reference is the first antenna of the pair and unchanged when it is the
\* second; other baselines produce no row.
C21_NegatedWheneverReferenceFirst ==
    ResWritten =>
        /\ RowsAreReferencePairs
        /\ \A k \in 1..Len(ReferencePairs) : \A pol \in 0..1 :
              LET bl == ReferencePairs[k] IN
              /\ ReferenceFirst(bl) => ret.value.rows[k][pol + 2] = Opposite(BaselineDelay(bl, pol))
              /\ (ReferenceSecond(bl) /\ ~ReferenceFirst(bl)) =>
                    ret.value.rows[k][pol + 2] = BaselineDelay(bl, pol)

\* C21 amended: as stated for the cross baselines of the reference; the
\* reference's own autocorrelation baseline produces one more row, labelled
\* with the reference, its delay unchanged.
C21_NegatedWhenReferenceFirstOfCrossPair ==
    ResWritten =>
        /\ RowsAreReferencePairs
        /\ \A k \in 1..Len(ReferencePairs) : \A pol \in 0..1 :
              LET bl == ReferencePairs[k] IN
              /\ (ReferenceFirst(bl) /\ ~ReferenceSecond(bl)) =>
                    ret.value.rows[k][pol + 2] = Opposite(BaselineDelay(bl, pol))
              /\ ReferenceSecond(bl) => ret.value.rows[k][pol + 2] = BaselineDelay(bl, pol)

\* the reference is the middle antenna of three: one row negated, one not,
\* both delays non-zero, and no row for the baseline of the two others
C21_Witness ==
    /\ ResWritten /\ nant_data = 3 /\ frame.ref_ant = AntStr(ant_numbers_data[2])
    /\ Len(ret.value.rows) = 3
    /\ \E k, l \in 1..Len(ReferencePairs) :
          LET bk == ReferencePairs[k]
              bl == ReferencePairs[l]
          IN  /\ ReferenceFirst(bk) /\ ~ReferenceSecond(bk)
              /\ BaselineDelay(bk, 0) # Zero
              /\ ret.value.rows[k][2] = Opposite(BaselineDelay(bk, 0))
              /\ ReferenceSecond(bl) /\ ~ReferenceFirst(bl)
              /\ BaselineDelay(bl, 0) # Zero
              /\ ret.value.rows[l][2] = BaselineDelay(bl, 0)

-----------------------------------------------------------------------------
(* antfxdelay_from_baselinefxdelay *)

\* The fixed-delay table is held as ants, the antennas in the order of the
\* file's rows (the order the dicts iterate in), and fixed_delays[stream][ant]
\* for the streams 0..3 (IF0..IF3).  Antennas are numbers, 0 being the empty
\* name; a baseline "eaXX-eaYY" is the pair <<XX, YY>>, in which the substring
\* test of lines 80 and 116 is membership because names have one width.
Streams == 0..3

\* lines 26-40: the previous reference, the first zero entry found
ZeroEntries(ants, fixed_delays) ==
    {x \in Streams \X (1..Len(ants)) : fixed_delays[x[1]][ants[x[2]]] = 0}

PreviousRefant(ants, fixed_delays) ==
    LET zs == ZeroEntries(ants, fixed_delays)
        first == CHOOSE x \in zs : \A y \in zs : x[1] < y[1] \/ (x[1] = y[1] /\ x[2] <= y[2])
    IN  ants[first[2]]

\* lines 52-57: the first antenna of the displacement map that was observed,
\* the reference as it was when there is none
RECURSIVE NewRefant(_, _, _, _)
NewRefant(refant, observed_ants, ant_displacements, k) ==
    IF k > Len(ant_displacements) THEN refant
    ELSE IF ant_displacements[k] \in observed_ants THEN ant_displacements[k]
    ELSE NewRefant(refant, observed_ants, ant_displacements, k + 1)

\* lines 62-63 for one stream, from row k on: each entry has the reference's
\* entry as it is at that moment subtracted from it
RECURSIVE RereferenceStream(_, _, _, _)
RereferenceStream(col, ants, refant, k) ==
    IF k > Len(ants) THEN col
    ELSE RereferenceStream([col EXCEPT ![ants[k]] = col[ants[k]] - col[refant]],
                           ants, refant, k + 1)

\* lines 61-63
Rereference(fixed_delays, ants, refant) ==
    [stream \in Streams |-> RereferenceStream(fixed_delays[stream], ants, refant, 1)]

\* lines 87-88 and 91-92 (123-124 and 127-128): what a row's residual does to
\* the other antenna's delay
ResidualSecondBug(delay, resid) == delay + resid
ResidualSecond(delay, resid) == delay - resid
ResidualFirst(delay, resid) == delay + resid

\* lines 79-96 (115-132) from row id on; a row is <<baseline, total_pol0,
\* total_pol1>>, s0 and s1 are the tuning's streams
RECURSIVE ApplyRows(_, _, _, _, _, _)
ApplyRows(fixed_delays, rows, refant, s0, s1, id) ==
    IF id > Len(rows) THEN fixed_delays
    ELSE LET baseline == rows[id][1]
             next == IF refant # baseline[1] /\ refant # baseline[2] THEN fixed_delays
                     ELSE IF baseline[1] # refant
                     THEN [fixed_delays EXCEPT
                              ![s0][baseline[1]] = ResidualSecond(@, rows[id][2]),
                              ![s1][baseline[1]] = ResidualSecond(@, rows[id][3])]
                     ELSE [fixed_delays EXCEPT
                              ![s0][baseline[2]] = ResidualFirst(@, rows[id][2]),
                              ![s1][baseline[2]] = ResidualFirst(@, rows[id][3])]
         IN  ApplyRows(next, rows, refant, s0, s1, id + 1)

\* the function after the table was parsed.  A tuning without a file has no
\* rows (has_AC, has_BD tell whether a file was named); locals are kept for
\* the record: refant, the table after lines 42-65, the table saved.
antfxdelay_from_baselinefxdelay(d_AC, has_AC, d_BD, has_BD, ants, fixed_delays, observed_ants, ant_displacements, refant) ==
    LET given == refant # 0
        found == IF given THEN refant
                 ELSE IF ZeroEntries(ants, fixed_delays) = {} THEN 0
                 ELSE PreviousRefant(ants, fixed_delays)
        absent == observed_ants # {} /\ found \notin observed_ants
        chosen == IF absent /\ ant_displacements # <<>>
                  THEN NewRefant(found, observed_ants, ant_displacements, 1) ELSE found
        referenced == IF absent /\ ant_displacements # <<>>
                      THEN Rereference(fixed_delays, ants, chosen) ELSE fixed_delays
        after_AC == IF has_AC THEN ApplyRows(referenced, d_AC, chosen, 0, 1, 1) ELSE referenced
        after_BD == IF has_BD THEN ApplyRows(after_AC, d_BD, chosen, 2, 3, 1) ELSE after_AC
        fail(exc) == [raised |-> exc, saved |-> FALSE, refant |-> found, absent |-> absent,
                      referenced |-> fixed_delays, fixed_delays |-> fixed_delays]
    IN  IF ~given /\ ZeroEntries(ants, fixed_delays) = {} THEN fail("IndexError")
        ELSE IF absent /\ ant_displacements = <<>> THEN fail(None)
        ELSE IF ~has_AC /\ ~has_BD
        THEN [fail("UnboundLocalError") EXCEPT !.refant = chosen, !.referenced = referenced,
                                               !.fixed_delays = referenced]
        ELSE [raised |-> None, saved |-> TRUE, refant |-> chosen, absent |-> absent,
              referenced |-> referenced, fixed_delays |-> after_BD]

-----------------------------------------------------------------------------
(* Specification of antfxdelay_from_baselinefxdelay *)

MaxFx == 3           \* antennas of the fixed-delay table

FxAnts == 1..MaxFx

\* the orders the table's rows can be in
TableOrders == {o \in DistinctSeqs(FxAnts, MaxFx) : Len(o) = MaxFx}

\* a loaded table whose reference is r0: zero for it in every stream
LoadedDelays(r0) ==
    [stream \in Streams |-> [a \in FxAnts |-> IF a = r0 THEN 0 ELSE 10 * a + stream]]

\* the antennas seen in a recording: not told, all, or all but one
ObservedSets == {{}, FxAnts} \cup {FxAnts \ {a} : a \in FxAnts}

\* displacement maps, nearest first
DisplacementMaps == {<<>>, [i \in 1..MaxFx |-> i], [i \in 1..MaxFx |-> MaxFx + 1 - i]}

\* a residual file: a row for each cross baseline, the lower antenna first
\* (e = 0) or second (e = 1), with residuals that tell rows and columns apart
ResidualFile(e, tuning) ==
    LET cross == SortedSeq({10 * x[1] + x[2] : x \in {y \in FxAnts \X FxAnts : y[1] < y[2]}})
    IN  [k \in 1..Len(cross) |->
            LET a == cross[k] \div 10
                b == cross[k] % 10
            IN  <<IF e = 0 THEN <<a, b>> ELSE <<b, a>>,
                  100 * (tuning + 1) + cross[k], 300 + 100 * (tuning + 1) + cross[k]>>]

InitFx ==
    /\ nant_data = None /\ ant_numbers_data = None /\ ant_names = None /\ ant_numbers = None
    /\ ant_indices = None /\ vis_data = None /\ bad_refant = None /\ antdisp = None
    /\ frame = [op |-> None]
    /\ ret = None

AntFxDelay ==
    /\ frame.op = None
    /\ \E ants \in TableOrders, r0 \in FxAnts, given, has_AC, has_BD \in BOOLEAN, e \in 0..1,
          observed_ants \in ObservedSets, ant_displacements \in DisplacementMaps :
          LET fixed_delays == LoadedDelays(r0)
              d_AC == IF has_AC THEN ResidualFile(e, 0) ELSE <<>>
              d_BD == IF has_BD THEN ResidualFile(e, 1) ELSE <<>>
              refant == IF given THEN r0 ELSE 0
          IN  /\ frame' = [op |-> "antfxdelay_from_baselinefxdelay", ants |-> ants,
                           loaded |-> fixed_delays, d_AC |-> d_AC, has_AC |-> has_AC,
                           d_BD |-> d_BD, has_BD |-> has_BD, observed_ants |-> observed_ants,
                           ant_displacements |-> ant_displacements, refant |-> refant]
              /\ ret' = antfxdelay_from_baselinefxdelay(d_AC, has_AC, d_BD, has_BD, ants,
                            fixed_delays, observed_ants, ant_displacements, refant)
    /\ UNCHANGED <<nant_data, ant_numbers_data, ant_names, ant_numbers, ant_indices,
                   vis_data, bad_refant, antdisp>>

NextFx == AntFxDelay

SpecFx == InitFx /\ [][NextFx]_vars

-----------------------------------------------------------------------------
(* Claims about antfxdelay_from_baselinefxdelay, under SpecFx *)

FxCalled == Called("antfxdelay_from_baselinefxdelay")

\* the previous reference was not observed and lines 52-57 chose a new one
NewReferenceChosen ==
    /\ FxCalled /\ ret.raised # "IndexError"
    /\ ret.absent /\ frame.ant_displacements # <<>>
    /\ ret.refant \in frame.observed_ants

\* the row of the table that holds antenna a
RowOf(a) == CHOOSE k \in 1..Len(frame.ants) : frame.ants[k] = a

\* C29: when the previous reference is not among the observed antennas and a
\* new one is chosen from the displacement map, the re-referencing leaves, in
\* every stream, every antenna's fixed delay equal to its loaded delay minus
\* the new reference's loaded delay in that stream, whatever the order of the
\* antennas in the table.
C29_RereferencedToNewReference ==
    NewReferenceChosen =>
        \A stream \in Streams : \A a \in FxAnts :
            ret.referenced[stream][a] =
                frame.loaded[stream][a] - frame.loaded[stream][ret.refant]

\* what the loop does: the rows above the new reference's are re-referenced,
\* its own row is zeroed and the rows below it are left as loaded
C29_OnlyRowsAboveReference ==
    NewReferenceChosen =>
        \A stream \in Streams : \A a \in FxAnts :
            ret.referenced[stream][a] =
                IF RowOf(a) <= RowOf(ret.refant)
                THEN frame.loaded[stream][a] - frame.loaded[stream][ret.refant]
                ELSE frame.loaded[stream][a]

\* the rows of a tuning's file that pair antenna a with the reference
RowsWith(rows, a) ==
    {k \in 1..Len(rows) : rows[k][1] \in {<<a, ret.refant>>, <<ret.refant, a>>}}

\* what the file of the stream's tuning adds to the delay of antenna a
Residual(stream, a) ==
    LET rows == IF stream \in {0, 1} THEN frame.d_AC ELSE frame.d_BD
        has == IF stream \in {0, 1} THEN frame.has_AC ELSE frame.has_BD
    IN  IF ~has \/ a = ret.refant \/ RowsWith(rows, a) = {} THEN 0
        ELSE LET k == CHOOSE x \in RowsWith(rows, a) : TRUE
                 resid == rows[k][2 + (stream % 2)]
             IN  IF rows[k][1][2] = ret.refant THEN 0 - resid ELSE resid

Loaded == <<>>

Absent == [run |-> "none", buffer |-> Loaded]

Previous == [run |-> "previous", buffer |-> Loaded]

Product(buffer) == [run |-> "this", buffer |-> buffer]

Hashes == {"GPU_calibrationPhases", "GPU_calibrationDelays", "GPU_calibrationGains"}

\* line 182: self.vis_data is replaced by the flagger's output
flag_rfi_visBug(buffer) == buffer

flag_rfi_vis(buffer) == Append(buffer, "flag_complex_vis_medf")

\* line 227: applycal corrects self.vis_data in place, only when a grade is asked for
derive_gains_buffer(buffer, calculate_grade) ==
    IF calculate_grade THEN Append(buffer, "applycal") ELSE buffer

\* pub_to_redis(phase_out, delays_outfile, gains_out): a hash is written for
\* each argument that is not None; the delays are read back from the file
pub_to_redis(redis, phase_out, delays_outfile, gains_out, disk) ==
    [h \in Hashes |->
        IF h = "GPU_calibrationPhases" /\ phase_out # Absent THEN phase_out
        ELSE IF h = "GPU_calibrationDelays" /\ delays_outfile # None THEN disk
        ELSE IF h = "GPU_calibrationGains" /\ gains_out # Absent THEN gains_out
        ELSE redis[h]]

\* ---------------------------------------------------------------------------
\* Specification of main: one action per stage of lines 956-1009
\* ---------------------------------------------------------------------------

MainArgs == [flagrfi : BOOLEAN, gendelay : BOOLEAN, genphase : BOOLEAN, gengain : BOOLEAN,
             calc_gain_grade : BOOLEAN, pub_to_redis : BOOLEAN]

InitMain ==
    /\ nant_data = None /\ ant_numbers_data = None /\ ant_names = None
    /\ ant_numbers = None /\ ant_indices = None /\ vis_data = None
    /\ bad_refant = None /\ antdisp = None
    /\ frame = [op |-> None]
    /\ ret = None

\* lines 917-949: the call, with the state of the disk and of the store that
\* earlier runs left behind; line 921 clears the three products
Main ==
    /\ frame.op = None
    /\ \E args \in MainArgs, writable \in BOOLEAN, solvable \in BOOLEAN, connected \in BOOLEAN,
          disk \in {Absent, Previous}, redis \in [Hashes -> {Absent, Previous}] :
          frame' = [op |-> "main", pc |-> "flag", args |-> args,
                    writable |-> writable, solvable |-> solvable, connected |-> connected,
                    disk |-> disk, redis |-> redis, stored |-> redis,
                    buffer |-> Loaded, ran |-> <<>>, reads |-> <<>>,
                    out_phase |-> Absent, outfile_delays |-> None, out_gains |-> Absent]
    /\ UNCHANGED <<nant_data, ant_numbers_data, ant_names, ant_numbers, ant_indices,
                   vis_data, bad_refant, antdisp, ret>>

\* lines 957-960
MainFlag ==
    /\ Called("main") /\ frame.pc = "flag"
    /\ frame' = IF frame.args.flagrfi
                THEN [frame EXCEPT !.pc = "delay",
                                   !.ran = Append(@, "flag"),
                                   !.reads = Append(@, [stage |-> "flag", buffer |-> frame.buffer]),
                                   !.buffer = flag_rfi_vis(@)]
                ELSE [frame EXCEPT !.pc = "delay"]
    /\ UNCHANGED <<nant_data, ant_numbers_data, ant_names, ant_numbers, ant_indices,
                   vis_data, bad_refant, antdisp, ret>>

\* lines 980-982: get_res_delays returns None when it cannot open its file
\* (lines 631-635), and shutil.chown(None, ...) raises
MainDelay ==
    /\ Called("main") /\ frame.pc = "delay"
    /\ IF ~frame.args.gendelay
       THEN frame' = [frame EXCEPT !.pc = "phase"] /\ ret' = ret
       ELSE IF frame.writable
       THEN /\ frame' = [frame EXCEPT !.pc = "phase",
                                      !.ran = Append(@, "delay"),
                                      !.reads = Append(@, [stage |-> "delay", buffer |-> frame.buffer]),
                                      !.disk = Product(frame.buffer),
                                      !.outfile_delays = "outfile_res"]
            /\ ret' = ret
       ELSE /\ frame' = [frame EXCEPT !.pc = "raised",
                                      !.ran = Append(@, "delay"),
                                      !.reads = Append(@, [stage |-> "delay", buffer |-> frame.buffer])]
            /\ ret' = [raised |-> "TypeError"]
    /\ UNCHANGED <<nant_data, ant_numbers_data, ant_names, ant_numbers, ant_indices,
                   vis_data, bad_refant, antdisp>>

\* lines 984-999: the dictionary is kept whether or not its file can be written
MainPhase ==
    /\ Called("main") /\ frame.pc = "phase"
    /\ frame' = IF frame.args.genphase
                THEN [frame EXCEPT !.pc = "gain",
                                   !.ran = Append(@, "phase"),
                                   !.reads = Append(@, [stage |-> "phase", buffer |-> frame.buffer]),
                                   !.out_phase = Product(frame.buffer)]
                ELSE [frame EXCEPT !.pc = "gain"]
    /\ UNCHANGED <<nant_data, ant_numbers_data, ant_names, ant_numbers, ant_indices,
                   vis_data, bad_refant, antdisp, ret>>

\* lines 1005-1006: derive_gains solves from the buffer (line 220), then, for a
\* grade, corrects the buffer in place and solves again (lines 227-229); the
\* dictionary is returned whether or not its file can be written (lines 260-274)
MainGain ==
    /\ Called("main") /\ frame.pc = "gain"
    /\ IF ~frame.args.gengain
       THEN frame' = [frame EXCEPT !.pc = "publish"] /\ ret' = ret
       ELSE IF frame.solvable
       THEN /\ frame' = [frame EXCEPT !.pc = "publish",
                                      !.ran = Append(@, "gain"),
                                      !.reads = Append(@, [stage |-> "gain", buffer |-> frame.buffer]),
                                      !.out_gains = Product(frame.buffer),
                                      !.buffer = derive_gains_buffer(@, frame.args.calc_gain_grade)]
            /\ ret' = ret
       ELSE /\ frame' = [frame EXCEPT !.pc = "raised",
                                      !.ran = Append(@, "gain"),
                                      !.reads = Append(@, [stage |-> "gain", buffer |-> frame.buffer])]
            /\ ret' = [raised |-> "IndexError"]
    /\ UNCHANGED <<nant_data, ant_numbers_data, ant_names, ant_numbers, ant_indices,
                   vis_data, bad_refant, antdisp>>

\* lines 1008-1009 and pub_to_redis; a subscription that fails raises RedisError
MainPublish ==
    /\ Called("main") /\ frame.pc = "publish"
    /\ LET nothing == /\ frame.out_phase = Absent /\ frame.outfile_delays = None
                      /\ frame.out_gains = Absent
       IN  IF ~frame.args.pub_to_redis
           THEN frame' = [frame EXCEPT !.pc = "done"] /\ ret' = [raised |-> None]
           ELSE IF frame.connected \/ nothing
           THEN /\ frame' = [frame EXCEPT !.pc = "done",
                                          !.ran = Append(@, "publish"),
                                          !.redis = pub_to_redis(@, frame.out_phase,
                                                        frame.outfile_delays, frame.out_gains,
                                                        frame.disk)]
                /\ ret' = [raised |-> None]
           ELSE /\ frame' = [frame EXCEPT !.pc = "raised", !.ran = Append(@, "publish")]
                /\ ret' = [raised |-> "RedisError"]
    /\ UNCHANGED <<nant_data, ant_numbers_data, ant_names, ant_numbers, ant_indices,
                   vis_data, bad_refant, antdisp>>

NextMain == Main \/ MainFlag \/ MainDelay \/ MainPhase \/ MainGain \/ MainPublish

SpecMain == InitMain /\ [][NextMain]_vars

\* ---------------------------------------------------------------------------
\* Claim about the order of main's stages, under SpecMain
\* ---------------------------------------------------------------------------

StageOrder == <<"flag", "delay", "phase", "gain", "publish">>

StageEnabled(args, stage) ==
    CASE stage = "flag" -> args.flagrfi
      [] stage = "delay" -> args.gendelay
      [] stage = "phase" -> args.genphase
      [] stage = "gain" -> args.gengain
      [] stage = "publish" -> args.pub_to_redis

EnabledStages(args) == SelectSeq(StageOrder, LAMBDA stage : StageEnabled(args, stage))

IsPrefixOf(s, t) == Len(s) <= Len(t) /\ \A i \in 1..Len(s) : s[i] = t[i]

HistoryHas(buffer, operation) == \E i \in 1..Len(buffer) : buffer[i] = operation

\* the stages that have run are the first enabled stages, in the fixed order,
\* and a run that ends without raising has run them all
StagesRunInOrder ==
    Called("main") =>
        /\ IsPrefixOf(frame.ran, EnabledStages(frame.args))
        /\ frame.pc = "done" => frame.ran = EnabledStages(frame.args)

\* after the flagger every stage reads the flagger's output
LaterStagesReadFlagged ==
    Called("main") =>
        \A i \in 1..Len(frame.reads) :
            (frame.args.flagrfi /\ frame.reads[i].stage # "flag")
                => HistoryHas(frame.reads[i].buffer, "flag_complex_vis_medf")

\* delays and phases come from a buffer that applycal has not corrected
DelayAndPhaseReadUncorrected ==
    Called("main") =>
        \A i \in 1..Len(frame.reads) :
            frame.reads[i].stage \in {"delay", "phase"}
                => ~HistoryHas(frame.reads[i].buffer, "applycal")

HashOf(stage) ==
    CASE stage = "phase" -> "GPU_calibrationPhases"
      [] stage = "delay" -> "GPU_calibrationDelays"
      [] stage = "gain" -> "GPU_calibrationGains"

\* the buffer a stage read in this run
ReadBy(stage) ==
    LET i == CHOOSE i \in 1..Len(frame.reads) : frame.reads[i].stage = stage
    IN  frame.reads[i].buffer

\* the publication finds the product of every enabled stage, writes exactly
\* those, each computed in this run from the buffer its stage read, and leaves
\* the other hashes as earlier runs left them
PublishesThisRun ==
    (Called("main") /\ frame.pc = "publish" /\ frame'.pc = "done" /\ frame.args.pub_to_redis) =>
        \A stage \in {"delay", "phase", "gain"} :
            IF StageEnabled(frame.args, stage)
            THEN frame'.redis[HashOf(stage)] = Product(ReadBy(stage))
            ELSE frame'.redis[HashOf(stage)] = frame.stored[HashOf(stage)]

\* nothing reaches the store before the publication stage
StoreUntouchedBeforePublication ==
    (Called("main") /\ frame.pc # "done") => frame.redis = frame.stored

\* C27: in one run of main the enabled stages execute in the order RFI
\* flagging, delay estimation, phase extraction, gain derivation, publication;
\* with flagging enabled every later stage reads the flagged buffer; delay and
\* phase extraction read the buffer before the gain applier corrects it in
\* place; publication comes after all enabled products exist and publishes
\* only products generated in this run.
C27_StagesInOrder ==
    /\ [](StagesRunInOrder /\ LaterStagesReadFlagged /\ DelayAndPhaseReadUncorrected
            /\ StoreUntouchedBeforePublication)
    /\ [][PublishesThisRun]_vars

\* a run with every stage enabled and a grade, over a disk and a store that
\* hold an earlier run's products, has published
C27_Witness ==
    /\ Called("main") /\ frame.pc = "done"
    /\ frame.ran = StageOrder
    /\ frame.args.calc_gain_grade
    /\ frame.buffer = <<"flag_complex_vis_medf", "applycal">>
    /\ \A h \in Hashes : frame.stored[h] = Previous /\ frame.redis[h].run = "this"

\* a run with only publication enabled leaves the earlier run's delays alone
C27_WitnessNothingGenerated ==
    /\ Called("main") /\ frame.pc = "done"
    /\ frame.ran = <<"publish">>
    /\ frame.disk = Previous
    /\ frame.redis = frame.stored

\* ---------------------------------------------------------------------------
\* gaincal_cpu on visibilities synthesized from known gains, in numbers
\*
\* The dominant eigenpair of the seeded matrix is irrational, so this
\* specification computes gaincal_cpu in fixed point: a real number r is the
\* integer nearest r * Scale and a complex number is a pair <<re, im>> of
\* such integers.  numpy.linalg.eigh is computed by power iteration, one
\* multiplication by the matrix per step; the matrix has the moduli
\* |g[a]| * |g[b]| off its diagonal and nothing negative on it, so its largest
\* eigenvalue is also the largest in modulus and the iteration finds it.
\* ---------------------------------------------------------------------------

Scale == 1000

PowerSteps == 40

\* the integer part of a square root, one binary digit at a time
RECURSIVE RootBits(_, _, _)
RootBits(n, r, b) ==
    IF b = 0 THEN r
    ELSE CHOOSE s \in {RootBits(n, c, b \div 2) :
                          c \in {IF r + b <= 46340 /\ (r + b) * (r + b) <= n
                                 THEN r + b ELSE r}} : TRUE

FloorSqrt(n) == RootBits(n, 0, 32768)

\* a product of two fixed-point numbers, brought back to one factor of Scale
Rescale(n) == (2 * n + Scale) \div (2 * Scale)

XMul(a, b) == <<Rescale(a[1] * b[1] - a[2] * b[2]), Rescale(a[1] * b[2] + a[2] * b[1])>>

XConj(a) == <<a[1], -a[2]>>

XAbs(a) == FloorSqrt(a[1] * a[1] + a[2] * a[2])

RECURSIVE XSum(_, _)
XSum(f, S) ==
    IF S = {} THEN <<0, 0>>
    ELSE LET x == CHOOSE y \in S : TRUE
             rest == XSum(f, S \ {x})
         IN  <<f[x][1] + rest[1], f[x][2] + rest[2]>>

\* V[a, b] = g[a] * conj(g[b]) for each row of the baseline table
Synthesized(g, table) ==
    [i \in 0..(Len(table) - 1) |-> XMul(g[table[i + 1][1] + 1], XConj(g[table[i + 1][2] + 1]))]

\* lines 150-156: the rows of a table are distinct pairs, so each entry of the
\* matrix is written by at most one baseline
SeededMatrix(data, table, nant) ==
    Held([a \in 0..(nant - 1) |-> Held([b \in 0..(nant - 1) |->
        IF ~SeedTest(a, b) THEN <<0, 0>>
        ELSE IF \E i \in 1..Len(table) : table[i] = <<a, b>>
        THEN data[(CHOOSE i \in 1..Len(table) : table[i] = <<a, b>>) - 1]
        ELSE IF \E i \in 1..Len(table) : table[i] = <<b, a>>
        THEN XConj(data[(CHOOSE i \in 1..Len(table) : table[i] = <<b, a>>) - 1])
        ELSE <<0, 0>>])])

MatVec(m, x) ==
    Held([a \in DOMAIN m |-> XSum([b \in DOMAIN m |-> XMul(m[a][b], x[b])], DOMAIN m)])

Norm(y) == FloorSqrt(XSum([a \in DOMAIN y |-> <<y[a][1] * y[a][1] + y[a][2] * y[a][2], 0>>],
                          DOMAIN y)[1])

Unit(y, n) == Held([a \in DOMAIN y |-> <<(y[a][1] * Scale) \div n, (y[a][2] * Scale) \div n>>])

\* the vector the power iteration starts from, the column of antenna 0: its
\* entries have the phases of the dominant eigenvector's, up to one common phase
StartVector(m) == Unit([a \in DOMAIN m |-> m[a][0]], Norm([a \in DOMAIN m |-> m[a][0]]))

\* line 162: w * (v.real[i]**2 + v.imag[i]**2)
FillDiagonalBug(w, vi) == 0

FillDiagonal(w, vi) == Rescale(w * ((vi[1] * vi[1] + vi[2] * vi[2]) \div Scale))

\* lines 161-162
Filled(m, w, v) ==
    Held([a \in DOMAIN m |-> Held([b \in DOMAIN m |->
        IF a = b THEN <<FillDiagonal(w, v[a]), 0>> ELSE m[a][b]])])

\* line 165: sqrt(w) * v
CandidateGain(w, v) == Held([a \in DOMAIN v |-> XMul(<<FloorSqrt(w * Scale), 0>>, v[a])])

\* lines 175-177: (cos(phi) - 1j * sin(phi)) * (amp > 0.0)
XFac(z) ==
    IF XAbs(z) > 0 THEN <<(z[1] * Scale) \div XAbs(z), -((z[2] * Scale) \div XAbs(z))>>
    ELSE <<0, 0>>

\* line 178
Referred(result, ref_ind) ==
    Held([a \in DOMAIN result |-> XMul(result[a], XFac(result[ref_ind]))])

\* ---------------------------------------------------------------------------
\* Specification of gaincal_cpu on synthesized visibilities
\* ---------------------------------------------------------------------------

GainValues == {<<Scale, 0>>, <<Scale \div 2, Scale \div 2>>, <<2 * Scale, -Scale>>}

TrueGains == {<<a, b, c>> : a \in GainValues, b \in GainValues, c \in GainValues}

InitRoundTrip ==
    /\ nant_data = None /\ ant_numbers_data = None /\ ant_names = None
    /\ ant_numbers = None /\ ant_indices = None /\ vis_data = None
    /\ bad_refant = None /\ antdisp = None
    /\ frame = [op |-> None]
    /\ ret = None

\* gaincal_cpu(data, ant_curr, ant_indices, ref_ant = ref_ant) up to line 156
RoundTripEnter ==
    /\ frame.op = None
    /\ \E g \in TrueGains, ref_ant \in 0..2 :
          LET ant_curr == [i \in 1..Len(g) |-> i - 1]
              table == get_ant_array_indices(Len(g))
              tdata == SeededMatrix(Synthesized(g, table), table, Len(g))
          IN  frame' = [op |-> "gaincal_cpu", pc |-> "eigh", g |-> g, ant_curr |-> ant_curr,
                        ref_ant |-> ref_ant, table |-> table, tdata |-> tdata, it |-> 0,
                        steps |-> 0, x |-> StartVector(tdata), w |-> 0,
                        amps |-> <<>>]
    /\ UNCHANGED <<nant_data, ant_numbers_data, ant_names, ant_numbers, ant_indices,
                   vis_data, bad_refant, antdisp, ret>>

\* inside eigh (line 158): one step of the power iteration
RoundTripPower ==
    /\ Called("gaincal_cpu") /\ frame.pc = "eigh" /\ frame.steps < PowerSteps
    /\ LET y == MatVec(frame.tdata, frame.x)
       IN  frame' = [frame EXCEPT !.x = Unit(y, Norm(y)), !.steps = @ + 1]
    /\ UNCHANGED <<nant_data, ant_numbers_data, ant_names, ant_numbers, ant_indices,
                   vis_data, bad_refant, antdisp, ret>>

\* lines 158-162: eigh returns, the diagonal is filled, the next pass begins
RoundTripPass ==
    /\ Called("gaincal_cpu") /\ frame.pc = "eigh" /\ frame.steps = PowerSteps
    /\ LET w == Norm(MatVec(frame.tdata, frame.x))
           tdata == Filled(frame.tdata, w, frame.x)
       IN  frame' = [frame EXCEPT !.w = w, !.tdata = tdata, !.it = @ + 1,
                                  !.steps = IF frame.it + 1 < nit THEN 0 ELSE PowerSteps,
                                  !.x = IF frame.it + 1 < nit THEN StartVector(tdata) ELSE @,
                                  !.amps = Append(@, [a \in DOMAIN frame.x |->
                                                XAbs(CandidateGain(w, frame.x)[a])]),
                                  !.pc = IF frame.it + 1 < nit THEN "eigh" ELSE "normalize"]
    /\ UNCHANGED <<nant_data, ant_numbers_data, ant_names, ant_numbers, ant_indices,
                   vis_data, bad_refant, antdisp, ret>>

\* lines 165-186
RoundTripReturn ==
    /\ Called("gaincal_cpu") /\ frame.pc = "normalize"
    /\ frame' = [frame EXCEPT !.pc = "done"]
    /\ ret' = [raised |-> None,
               gain_val |-> Referred(CandidateGain(frame.w, frame.x),
                                     RefInd(frame.ant_curr, frame.ref_ant))]
    /\ UNCHANGED <<nant_data, ant_numbers_data, ant_names, ant_numbers, ant_indices,
                   vis_data, bad_refant, antdisp>>

NextRoundTrip == RoundTripEnter \/ RoundTripPower \/ RoundTripPass \/ RoundTripReturn

SpecRoundTrip == InitRoundTrip /\ [][NextRoundTrip]_vars

\* ---------------------------------------------------------------------------
\* Claim about the round trip of gaincal_cpu, under SpecRoundTrip
\* ---------------------------------------------------------------------------

RoundTripReturned == Called("gaincal_cpu") /\ frame.pc = "done"

\* true gains 1, 0.5 + 0.5j, 2 - 1j and reference antenna 1
Scenario ==
    /\ Called("gaincal_cpu")
    /\ frame.g = << <<Scale, 0>>, <<Scale \div 2, Scale \div 2>>, <<2 * Scale, -Scale>> >>
    /\ frame.ref_ant = 1

\* |a| / |b| in fixed point
Ratio(a, b) == (a * Scale) \div b

TrueRatio == Ratio(XAbs(frame.g[1]), XAbs(frame.g[3]))

RecoveredRatio == Ratio(XAbs(ret.gain_val[0]), XAbs(ret.gain_val[2]))

RatioAfter(pass) == Ratio(frame.amps[pass][0], frame.amps[pass][2])

\* 1e-6 is below what the fixed point resolves: the ratios are compared to
\* within one unit, 1 / Scale
RatioTolerance == 1

\* the reference's gain is real and not negative, to within the rounding
ReferencePhaseZero ==
    LET r == ret.gain_val[RefInd(frame.ant_curr, frame.ref_ant)]
    IN  r[1] > 0 /\ Abs(r[2]) <= 2

\* every gain has the phase its true gain has against the reference's, to
\* within a hundredth of a radian
PhasesRecovered ==
    \A a \in DOMAIN ret.gain_val :
        LET truth == XMul(frame.g[a + 1], XConj(frame.g[RefInd(frame.ant_curr, frame.ref_ant) + 1]))
            z == XMul(ret.gain_val[a], XConj(truth))
        IN  z[1] > 0 /\ 100 * Abs(z[2]) <= z[1]

=============================================================================
